---- MODULE Spec2Model ----
(***************************************************************************)
(* A model of the dos-like Rust binding layer (crate dos_like): the safe   *)
(* wrappers of src/src/{lib,video,sound,music,input}.rs over the native    *)
(* dos-like library.  The wrappers are translated from the Rust source.    *)
(* The native library (dos.c, reached through dos_like_sys::bindings) is   *)
(* not part of the sources at hand; its entry points are modelled from the *)
(* documentation of the wrappers and from the specification, and are kept  *)
(* in lower-case C names (setpal, getpal, screenbuffer, ...).              *)
(***************************************************************************)
EXTENDS Integers, Sequences, FiniteSets, TLC

\* ------------------------------------------------------------------ bounds

\* longest string / path handed to a wrapper
MaxStrLen == 2
\* number of native assets (sounds, musics, images) the library will allocate
MaxAssets == 2
\* number of user fonts / user soundbanks the library will install
MaxUserIds == 1
\* largest text cursor coordinate the application asks for inside the grid
MaxCoord == 2
\* wrapper calls explored from the initial state in the whole-API specification
MaxCalls == 3
\* key events and character events the library queues one by one
MaxEvents == 2
\* longest list of coordinates handed to draw_poly / fill_poly
MaxPoints == 4

\* ------------------------------------------------------- video modes (enum)

TextModes ==
    {"Text40x25_8x8", "Text40x25_9x16", "Text80x25_8x8", "Text80x25_8x16",
     "Text80x25_9x16", "Text80x43_8x8", "Text80x50_8x8"}

GraphicsModes ==
    {"Graphics320x200", "Graphics320x240", "Graphics320x400", "Graphics640x200",
     "Graphics640x350", "Graphics640x400", "Graphics640x480"}

VideoMode == TextModes \cup GraphicsModes

\* Mutant of kind: every mode falls in the arm of the text modes.
kind_first_arm(mode) == "Text"

\* VideoMode::kind
kind(mode) == IF mode \in TextModes THEN "Text" ELSE "Graphics"

\* VideoMode::is_graphics
is_graphics(mode) == kind(mode) = "Graphics"

\* VideoMode::is_text
is_text(mode) == kind(mode) = "Text"

\* "This is the mode set by default."
DefaultVideoMode == "Text80x25_8x16"

\* Horizontal extent of a mode: columns of a text mode, pixels of a graphics mode.
ModeWidth(mode) ==
    CASE mode \in {"Text40x25_8x8", "Text40x25_9x16"} -> 40
      [] mode \in {"Text80x25_8x8", "Text80x25_8x16", "Text80x25_9x16",
                   "Text80x43_8x8", "Text80x50_8x8"} -> 80
      [] mode \in {"Graphics320x200", "Graphics320x240", "Graphics320x400"} -> 320
      [] OTHER -> 640

\* Vertical extent of a mode: rows of a text mode, pixels of a graphics mode.
ModeHeight(mode) ==
    CASE mode \in {"Text40x25_8x8", "Text40x25_9x16", "Text80x25_8x8",
                   "Text80x25_8x16", "Text80x25_9x16"} -> 25
      [] mode = "Text80x43_8x8" -> 43
      [] mode = "Text80x50_8x8" -> 50
      [] mode \in {"Graphics320x200", "Graphics640x200"} -> 200
      [] mode = "Graphics320x240" -> 240
      [] mode = "Graphics640x350" -> 350
      [] mode \in {"Graphics320x400", "Graphics640x400"} -> 400
      [] OTHER -> 480

\* ------------------------------------------- enumerations and native constants

\* enum videomode_t of the native library, in the order of its declaration: the
\* k-th mode has the constant k - 1.  Each native mode is named here by the
\* wrapper variant that documents it.
videomode_t ==
    <<"Text40x25_8x8", "Text40x25_9x16", "Text80x25_8x8", "Text80x25_8x16",
      "Text80x25_9x16", "Text80x43_8x8", "Text80x50_8x8", "Graphics320x200",
      "Graphics320x240", "Graphics320x400", "Graphics640x200", "Graphics640x350",
      "Graphics640x400", "Graphics640x480">>

\* The value of the native constant dos_like_sys::videomode_t_videomode_<m>.
videomode_t_videomode(m) == (CHOOSE k \in DOMAIN videomode_t : videomode_t[k] = m) - 1

\* Mutant of VideoMode_as_c_uint: Text80x25_8x8 is given the constant of
\* Text80x25_8x16, and the other way round.
VideoMode_as_c_uint_swapped(mode) ==
    CASE mode = "Text80x25_8x8" -> videomode_t_videomode("Text80x25_8x16")
      [] mode = "Text80x25_8x16" -> videomode_t_videomode("Text80x25_8x8")
      [] OTHER -> videomode_t_videomode(mode)

\* `mode as c_uint`: the discriminant of a VideoMode variant, which the enum
\* declares to be the native constant of the same mode.
VideoMode_as_c_uint(mode) == videomode_t_videomode(mode)

\* enum SoundMode: 8 and 16 bit, mono and stereo, seven sample rates.
SoundMode ==
    {"Mono8bit5000", "Mono8bit8000", "Mono8bit11025", "Mono8bit16000",
     "Mono8bit22050", "Mono8bit32000", "Mono8bit44100",
     "Mono16Bit5000", "Mono16Bit8000", "Mono16Bit11025", "Mono16Bit16000",
     "Mono16Bit22050", "Mono16Bit32000", "Mono16Bit44100",
     "Stereo8Bit5000", "Stereo8Bit8000", "Stereo8Bit11025", "Stereo8Bit16000",
     "Stereo8Bit22050", "Stereo8Bit32000", "Stereo8Bit44100",
     "Stereo16Bit5000", "Stereo16Bit8000", "Stereo16Bit11025", "Stereo16Bit16000",
     "Stereo16Bit22050", "Stereo16Bit32000", "Stereo16Bit44100"}

\* enum soundmode_t of the native library, in the order of its declaration.
soundmode_t ==
    <<"Mono8bit5000", "Mono8bit8000", "Mono8bit11025", "Mono8bit16000",
      "Mono8bit22050", "Mono8bit32000", "Mono8bit44100",
      "Mono16Bit5000", "Mono16Bit8000", "Mono16Bit11025", "Mono16Bit16000",
      "Mono16Bit22050", "Mono16Bit32000", "Mono16Bit44100",
      "Stereo8Bit5000", "Stereo8Bit8000", "Stereo8Bit11025", "Stereo8Bit16000",
      "Stereo8Bit22050", "Stereo8Bit32000", "Stereo8Bit44100",
      "Stereo16Bit5000", "Stereo16Bit8000", "Stereo16Bit11025", "Stereo16Bit16000",
      "Stereo16Bit22050", "Stereo16Bit32000", "Stereo16Bit44100">>

\* The value of the native constant dos_like_sys::soundmode_t_soundmode_<m>.
soundmode_t_soundmode(m) == (CHOOSE k \in DOMAIN soundmode_t : soundmode_t[k] = m) - 1

\* Mutant of SoundMode_as_c_uint: the 16 bit stereo modes are given the
\* constants of the 8 bit stereo modes (a copy of the block above them).
SoundMode_as_c_uint_copied(sound_mode) ==
    LET k == soundmode_t_soundmode(sound_mode)
    IN  IF k >= 21 THEN k - 7 ELSE k

\* `sound_mode as c_uint`: the discriminant of a SoundMode variant.
SoundMode_as_c_uint(sound_mode) == soundmode_t_soundmode(sound_mode)

\* The sound mode the mixer starts in.
DefaultSoundMode == "Stereo16Bit44100"

\* ------------------------------------------------------ numeric conversions

\* `v as u8` of a C int: the low 8 bits.
as_u8(v) == v % 256

\* `v as u16` of a C int: the low 16 bits.
as_u16(v) == v % 65536

\* Mutant of as_usize: a narrowing cast on the way (`as u8 as usize`).
as_usize_narrow(v) == v % 256

\* `v as usize` of a C int (sign extension); the 64-bit reading of a negative
\* C int is far beyond any slice, and is kept symbolic as -1.
as_usize(v) == IF v < 0 THEN -1 ELSE v

\* A usize argument is the pair [hi, lo]: its value is hi * 2^32 + (lo mod 2^32),
\* lo being the signed reading of the low 32 bits.  `index as c_int` truncates.
usize_as_c_int(u) == u.lo

\* usize values of the form hi = 0, lo = n >= 0 denote n itself.
Usize(n) == [hi |-> 0, lo |-> n]

\* bool as c_int
bool_as_c_int(b) == IF b THEN 1 ELSE 0

\* ----------------------------------------------------------------- strings

\* Byte values used in strings and paths: NUL and a printable character.
Bytes == {0, 65}

RECURSIVE SeqsUpTo(_)
SeqsUpTo(n) ==
    IF n = 0 THEN {<<>>}
    ELSE LET shorter == SeqsUpTo(n - 1)
         IN  shorter \cup {Append(s, b) : s \in shorter, b \in Bytes}

Strings == SeqsUpTo(MaxStrLen)

\* CString::new(bytes): an error when the bytes contain an interior NUL,
\* otherwise the NUL-terminated copy.
CString_new(s) ==
    IF \E i \in 1..Len(s) : s[i] = 0
    THEN [ok |-> FALSE, cstr |-> <<>>]
    ELSE [ok |-> TRUE, cstr |-> Append(s, 0)]

\* ------------------------------------------------------------------- state

VARIABLES
    videomode,      \* native: the active video mode
    doublebuffer,   \* native: whether double buffering is enabled
    drawbuf,        \* native: which of the two frame buffers is drawn to
    palette,        \* native: the 256 palette entries, each <<r, g, b>>
    curx, cury,     \* native: the text cursor
    assets,         \* native: allocations handed out, [type, ptr]; never freed
    userfonts,      \* native: ids of the installed user fonts
    userbanks,      \* native: ids of the installed user soundbanks
    buffer,         \* caller: the screen buffer view it holds (`buffer` of the examples)
    images,         \* caller: the Image values it holds
    sounds,         \* caller: the Sound values it holds (the wrapped pointer)
    musics,         \* caller: the Music values it holds (the wrapped pointer)
    fonts,          \* caller: the Font values it holds (the wrapped id)
    banks,          \* caller: the Soundbank values it holds (the wrapped id)
    op,             \* the wrapper called last, with its arguments
    calls,          \* the native entry points that call invoked, in order
    outcome,        \* what that call returned (or that it panicked)
    lastSet,        \* history: the last palette write made through set_pal
    lastGoto,       \* history: the last goto_xy that placed the cursor
    soundmode,      \* native: the sound mode of the mixer
    playing,        \* native: the music tracks the mixer is playing
    inqueue,        \* native: key / character events queued since the last read
    inbuf,          \* native: the key / character buffers, as last handed out
    typed,          \* history: every event the library queued, in order
    got,            \* history: every event read_keys / read_chars returned, in order
    shutdown,       \* native: the flag that tells the application to shut down
    pc,             \* caller: where the application's main loop stands
    views,          \* caller: the views of an Image's pixel data its threads hold
    steps           \* number of wrapper calls made (whole-API specification only)

videoVars == <<videomode, doublebuffer, drawbuf>>
cursorVars == <<curx, cury, lastGoto>>
paletteVars == <<palette, lastSet>>
nativeAssetVars == <<assets, userfonts, userbanks>>
handleVars == <<images, sounds, musics, fonts, banks>>
callVars == <<op, calls, outcome>>
mixerVars == <<soundmode, playing>>
inputVars == <<inqueue, inbuf, typed, got>>
appVars == <<shutdown, pc, views>>

vars == <<videomode, doublebuffer, drawbuf, palette, curx, cury, assets, userfonts,
          userbanks, buffer, images, sounds, musics, fonts, banks, op, calls,
          outcome, lastSet, lastGoto, soundmode, playing, inqueue, inbuf, typed, got,
          shutdown, pc, views, steps>>

\* The null pointer, and the id 0 that the install functions return on failure.
NULL == 0

NoView == [buf |-> -1, len |-> -1, mode |-> "none"]
None == <<>>
NoSet == [index |-> [hi |-> -1, lo |-> -1], rgb |-> <<0, 0, 0>>]

\* A native call, as recorded in `calls`: the entry point, the arguments passed
\* and the value returned (0 for a void function).
Call(fn, args, ret) == [fn |-> fn, args |-> args, ret |-> ret]

\* The record of a wrapper call: its name and arguments, the native calls it made
\* and its result.
Returns(name, args, made, tag, val) ==
    /\ op' = [name |-> name, args |-> args]
    /\ calls' = made
    /\ outcome' = [tag |-> tag, val |-> val]

\* A panic unwinds out of the wrapper; inside `extern "C" fn dosmain` it ends the
\* program, so no wrapper is called after one.
Running == outcome.tag # "Panic"

Panics(name, args) == Returns(name, args, <<>>, "Panic", 0)

\* ------------------------------------------------- native library: video

\* setvideomode: switches to the mode with the given constant; the text cursor
\* starts at the origin.
setvideomode(mode) ==
    /\ videomode' = videomode_t[mode + 1]
    /\ curx' = 0
    /\ cury' = 0
    /\ lastGoto' = None

\* setdoublebuffer
setdoublebuffer(enabled) == doublebuffer' = (enabled # 0)

\* screenwidth
screenwidth == ModeWidth(videomode)

\* screenheight
screenheight == ModeHeight(videomode)

\* screenbuffer: the frame buffer currently drawn to.
screenbuffer == drawbuf

\* swapbuffers: with double buffering the two frame buffers change roles and the
\* new draw buffer is returned; without it there is one buffer.
swapbuffers == IF doublebuffer THEN 1 - drawbuf ELSE drawbuf

\* --------------------------------------------------------- video wrappers

\* std::slice::from_raw_parts_mut(buf, width * height): the view over a frame
\* buffer; `mode` records the mode the view was made in (history, not data).
slice_from_raw_parts_mut(buf, len) == [buf |-> buf, len |-> len, mode |-> videomode]

\* Mutant of view_len: the width taken twice.
view_len_square(width, height) == width * width

\* `width * height`, the length handed to from_raw_parts_mut.
view_len(width, height) == width * height

set_video_mode(mode) ==
    /\ Running
    /\ UNCHANGED <<mixerVars, inputVars>>
    /\ setvideomode(VideoMode_as_c_uint(mode))
    /\ Returns("set_video_mode", <<mode>>,
               <<Call("setvideomode", <<VideoMode_as_c_uint(mode)>>, 0)>>, "Unit", 0)
    /\ UNCHANGED <<doublebuffer, drawbuf, paletteVars, nativeAssetVars, buffer,
                   handleVars>>

\* A method of a VideoMode value; it calls nothing.
VideoMode_get(name, mode, val) ==
    /\ Running
    /\ Returns(name, <<mode>>, <<>>, "Value", val)
    /\ UNCHANGED <<videoVars, paletteVars, cursorVars, nativeAssetVars, buffer,
                   handleVars, mixerVars, inputVars>>

VideoMode_kind(mode) == VideoMode_get("VideoMode::kind", mode, kind(mode))

VideoMode_is_graphics(mode) ==
    VideoMode_get("VideoMode::is_graphics", mode, is_graphics(mode))

VideoMode_is_text(mode) == VideoMode_get("VideoMode::is_text", mode, is_text(mode))

set_double_buffer(enabled) ==
    /\ Running
    /\ UNCHANGED <<mixerVars, inputVars>>
    /\ setdoublebuffer(bool_as_c_int(enabled))
    /\ Returns("set_double_buffer", <<enabled>>,
               <<Call("setdoublebuffer", <<bool_as_c_int(enabled)>>, 0)>>, "Unit", 0)
    /\ UNCHANGED <<videomode, drawbuf, paletteVars, cursorVars, nativeAssetVars,
                   buffer, handleVars>>

screen_width ==
    /\ Running
    /\ UNCHANGED <<mixerVars, inputVars>>
    /\ Returns("screen_width", <<>>, <<Call("screenwidth", <<>>, screenwidth)>>, "Value",
               as_u16(screenwidth))
    /\ UNCHANGED <<videoVars, paletteVars, cursorVars, nativeAssetVars, buffer,
                   handleVars>>

\* Mutant of screen_height: the value is right, but it takes a second native
\* call to get it.
screen_height_two_calls ==
    /\ Running
    /\ UNCHANGED <<mixerVars, inputVars>>
    /\ Returns("screen_height", <<>>,
               <<Call("screenwidth", <<>>, screenwidth),
                 Call("screenheight", <<>>, screenheight)>>, "Value",
               as_u16(screenheight))
    /\ UNCHANGED <<videoVars, paletteVars, cursorVars, nativeAssetVars, buffer,
                   handleVars>>

screen_height ==
    /\ Running
    /\ UNCHANGED <<mixerVars, inputVars>>
    /\ Returns("screen_height", <<>>, <<Call("screenheight", <<>>, screenheight)>>, "Value",
               as_u16(screenheight))
    /\ UNCHANGED <<videoVars, paletteVars, cursorVars, nativeAssetVars, buffer,
                   handleVars>>

screen_buffer ==
    /\ Running
    /\ UNCHANGED <<mixerVars, inputVars>>
    /\ LET buf == screenbuffer
           width == as_usize(screenwidth)
           height == as_usize(screenheight)
           view == slice_from_raw_parts_mut(buf, view_len(width, height))
       IN  /\ buffer' = view
           /\ Returns("screen_buffer", <<>>,
                      <<Call("screenbuffer", <<>>, buf), Call("screenwidth", <<>>, screenwidth),
                        Call("screenheight", <<>>, screenheight)>>, "Value", view)
    /\ UNCHANGED <<videoVars, paletteVars, cursorVars, nativeAssetVars, handleVars>>

\* Mutant of swap_buffers: the body of screen_buffer, which asks the native
\* library for the current buffer instead of swapping.
swap_buffers_unswapped ==
    /\ Running
    /\ UNCHANGED <<mixerVars, inputVars>>
    /\ LET buf == screenbuffer
           width == as_usize(screenwidth)
           height == as_usize(screenheight)
           view == slice_from_raw_parts_mut(buf, view_len(width, height))
       IN  /\ drawbuf' = drawbuf
           /\ buffer' = view
           /\ Returns("swap_buffers", <<>>,
                      <<Call("screenbuffer", <<>>, buf), Call("screenwidth", <<>>, screenwidth),
                        Call("screenheight", <<>>, screenheight)>>, "Value", view)
    /\ UNCHANGED <<videomode, doublebuffer, paletteVars, cursorVars, nativeAssetVars,
                   handleVars>>

swap_buffers ==
    /\ Running
    /\ UNCHANGED <<mixerVars, inputVars>>
    /\ LET buf == swapbuffers
           width == as_usize(screenwidth)
           height == as_usize(screenheight)
           view == slice_from_raw_parts_mut(buf, view_len(width, height))
       IN  /\ drawbuf' = buf
           /\ buffer' = view
           /\ Returns("swap_buffers", <<>>,
                      <<Call("swapbuffers", <<>>, buf), Call("screenwidth", <<>>, screenwidth),
                        Call("screenheight", <<>>, screenheight)>>, "Value", view)
    /\ UNCHANGED <<videomode, doublebuffer, paletteVars, cursorVars, nativeAssetVars,
                   handleVars>>

\* ----------------------------------------------- native library: palette

PalRange == 0..255

\* setpal: writes one palette entry; an index outside the palette writes nothing.
setpal(index, r, g, b) ==
    palette' = IF index \in PalRange
               THEN [palette EXCEPT ![index] = <<r, g, b>>]
               ELSE palette

\* getpal: stores the entry through the three out-pointers; an index outside the
\* palette leaves them as the caller initialised them (`out`).
getpal(index, out) == IF index \in PalRange THEN palette[index] ELSE out

\* ------------------------------------------------------- palette wrappers

\* `v as c_int` of a u8: widening, value-preserving.
u8_as_c_int(v) == v

\* Mutant of set_pal_args: green and blue change places.
set_pal_args_swapped(index, r, g, b) ==
    <<usize_as_c_int(index), u8_as_c_int(r), u8_as_c_int(b), u8_as_c_int(g)>>

\* The four arguments set_pal hands to setpal.
set_pal_args(index, r, g, b) ==
    <<usize_as_c_int(index), u8_as_c_int(r), u8_as_c_int(g), u8_as_c_int(b)>>

set_pal(index, r, g, b) ==
    /\ Running
    /\ UNCHANGED <<mixerVars, inputVars>>
    /\ LET a == set_pal_args(index, r, g, b)
       IN  /\ setpal(a[1], a[2], a[3], a[4])
           /\ Returns("set_pal", <<index, r, g, b>>, <<Call("setpal", a, 0)>>, "Unit", 0)
    /\ lastSet' = [index |-> index, rgb |-> <<r, g, b>>]
    /\ UNCHANGED <<videoVars, cursorVars, nativeAssetVars, buffer, handleVars>>

\* The triple pal makes of the three C ints getpal stored.
pal_result(rgb) == <<as_u8(rgb[1]), as_u8(rgb[2]), as_u8(rgb[3])>>

pal(index) ==
    /\ Running
    /\ UNCHANGED <<mixerVars, inputVars>>
    /\ LET i == usize_as_c_int(index)
           rgb == getpal(i, <<0, 0, 0>>)
       IN  Returns("pal", <<index>>, <<Call("getpal", <<i>>, rgb)>>, "Value",
                   pal_result(rgb))
    /\ UNCHANGED <<videoVars, paletteVars, cursorVars, nativeAssetVars, buffer,
                   handleVars>>

\* ------------------------------------------- native library: text cursor

InGrid(x, y) ==
    /\ is_text(videomode)
    /\ x \in 0..(ModeWidth(videomode) - 1)
    /\ y \in 0..(ModeHeight(videomode) - 1)

\* gotoxy: places the cursor; ignored outside text mode or outside the grid.
gotoxy(x, y) ==
    IF InGrid(x, y)
    THEN curx' = x /\ cury' = y /\ lastGoto' = <<x, y>>
    ELSE UNCHANGED <<curx, cury>> /\ lastGoto' = None

\* wherex / wherey: the cursor position; 0 outside text mode.
wherex == IF is_text(videomode) THEN curx ELSE 0

wherey == IF is_text(videomode) THEN cury ELSE 0

\* cputs: prints at the cursor and leaves the cursor after the text, wherever
\* wrapping and scrolling put it; ignored outside text mode.
cputs(text) ==
    /\ IF is_text(videomode)
       THEN \E nx \in 0..1, ny \in 0..1 : curx' = nx /\ cury' = ny
       ELSE UNCHANGED <<curx, cury>>
    /\ lastGoto' = None

\* ---------------------------------------------------------- text wrappers

\* `v as c_int` of a u16: widening, value-preserving.
u16_as_c_int(v) == v

\* `v.max(0) as u16` of a C int.
max0_as_u16(v) == as_u16(IF v > 0 THEN v ELSE 0)

goto_xy(x, y) ==
    /\ Running
    /\ UNCHANGED <<mixerVars, inputVars>>
    /\ gotoxy(u16_as_c_int(x), u16_as_c_int(y))
    /\ Returns("goto_xy", <<x, y>>,
               <<Call("gotoxy", <<u16_as_c_int(x), u16_as_c_int(y)>>, 0)>>, "Unit", 0)
    /\ UNCHANGED <<videoVars, paletteVars, nativeAssetVars, buffer, handleVars>>

where_x ==
    /\ Running
    /\ UNCHANGED <<mixerVars, inputVars>>
    /\ Returns("where_x", <<>>, <<Call("wherex", <<>>, wherex)>>, "Value",
               max0_as_u16(wherex))
    /\ UNCHANGED <<videoVars, paletteVars, cursorVars, nativeAssetVars, buffer,
                   handleVars>>

\* video.rs:847-849: the body calls dos_like_sys::wherex().
where_y ==
    /\ Running
    /\ UNCHANGED <<mixerVars, inputVars>>
    /\ Returns("where_y", <<>>, <<Call("wherex", <<>>, wherex)>>, "Value",
               max0_as_u16(wherex))
    /\ UNCHANGED <<videoVars, paletteVars, cursorVars, nativeAssetVars, buffer,
                   handleVars>>

\* put_cstr, as called with an already NUL-terminated string.
put_cstr(text) ==
    /\ cputs(text)
    /\ calls' = <<Call("cputs", <<text>>, 0)>>
    /\ outcome' = [tag |-> "Unit", val |-> 0]
    /\ UNCHANGED <<videoVars, paletteVars, nativeAssetVars, buffer, handleVars>>

\* Mutant of put_str: a string that cannot be converted is printed as the empty
\* string (`unwrap_or_default`) instead of panicking.
put_str_lossy(string) ==
    /\ Running
    /\ UNCHANGED <<mixerVars, inputVars>>
    /\ LET text == CString_new(string)
       IN  /\ put_cstr(IF text.ok THEN text.cstr ELSE <<0>>)
           /\ op' = [name |-> "put_str", args |-> <<string>>]

put_str(string) ==
    /\ Running
    /\ UNCHANGED <<mixerVars, inputVars>>
    /\ LET text == CString_new(string)
       IN  IF text.ok
           THEN put_cstr(text.cstr) /\ op' = [name |-> "put_str", args |-> <<string>>]
           ELSE /\ Panics("put_str", <<string>>)
                /\ UNCHANGED <<videoVars, paletteVars, cursorVars, nativeAssetVars,
                               buffer, handleVars>>

\* out_text_xy, wrap_text_xy and center_text_xy: CString::new(text).unwrap(),
\* then the native call `fn` with the converted arguments.
text_xy(name, fn, x, y, string, rest) ==
    /\ Running
    /\ UNCHANGED <<mixerVars, inputVars>>
    /\ LET text == CString_new(string)
       IN  IF text.ok
           THEN Returns(name, <<x, y, string>> \o rest,
                        <<Call(fn, <<u16_as_c_int(x), u16_as_c_int(y), text.cstr>> \o rest,
                               0)>>,
                        "Unit", 0)
           ELSE Panics(name, <<x, y, string>> \o rest)
    /\ UNCHANGED <<videoVars, paletteVars, cursorVars, nativeAssetVars, buffer,
                   handleVars>>

out_text_xy(x, y, text) == text_xy("out_text_xy", "outtextxy", x, y, text, <<>>)

wrap_text_xy(x, y, text, width) ==
    text_xy("wrap_text_xy", "wraptextxy", x, y, text, <<u16_as_c_int(width)>>)

center_text_xy(x, y, text, width) ==
    text_xy("center_text_xy", "centertextxy", x, y, text, <<u16_as_c_int(width)>>)

\* ------------------------------------------------ native library: assets

\* What a native load or create call can return: NULL (the file is missing or
\* unreadable, the data invalid), or a pointer to a new allocation.
NativePtrs ==
    {NULL} \cup (IF Cardinality(assets) < MaxAssets
                 THEN {Cardinality(assets) + 1}
                 ELSE {})

\* The allocation behind a non-null return of loadgif, loadwav, loadmid, loadmus,
\* loadmod, loadopb, createsound or createmus.  Nothing is freed.
native_alloc(type, ptr) ==
    assets' = IF ptr = NULL THEN assets ELSE assets \cup {[type |-> type, ptr |-> ptr]}

\* Ids of the built-in fonts and soundbanks (dos_like_sys constants).
DEFAULT_FONT_8X8 == 1
DEFAULT_FONT_8X16 == 2
DEFAULT_FONT_9X16 == 3
DEFAULT_SOUNDBANK_AWE32 == 1
DEFAULT_SOUNDBANK_SB16 == 2

\* What installuserfont can return: 0, or the id of the newly installed font.
NativeFontIds ==
    {0} \cup (IF Cardinality(userfonts) < MaxUserIds
              THEN {DEFAULT_FONT_9X16 + Cardinality(userfonts) + 1}
              ELSE {})

\* What installusersoundbank can return: 0, or the id of the new soundbank.
NativeBankIds ==
    {0} \cup (IF Cardinality(userbanks) < MaxUserIds
              THEN {DEFAULT_SOUNDBANK_SB16 + Cardinality(userbanks) + 1}
              ELSE {})

\* Width, height and palette size that loadgif reports for a decoded file.
GifHeaders == {<<1, 1, 2>>, <<2, 1, 256>>, <<3, 2, 16>>}

\* ------------------------------------------------------------ conversions

\* `v as u32` of a C int and `v as c_int` of a u32 reinterpret the 32 bits; they
\* are written for the values below 2^31, where both readings agree.
c_int_as_u32(v) == IF v >= 0 THEN v ELSE (v + 2147483647) + 2147483647 + 2

u32_as_c_int(v) == IF v <= 2147483647 THEN v ELSE (v - 2147483647) - 2147483647 - 2

\* Mutant of NonZeroU32_new: zero is wrapped like any other value.
NonZeroU32_new_unchecked(v) == [some |-> TRUE, id |-> v]

\* NonZeroU32::new
NonZeroU32_new(v) == IF v = 0 THEN [some |-> FALSE, id |-> 0] ELSE [some |-> TRUE, id |-> v]

\* Font::from_raw_id and Soundbank::from_raw_id
from_raw_id(id) == NonZeroU32_new(c_int_as_u32(id))

\* Font::from_id and Soundbank::from_id, as functions
from_id(id) == from_raw_id(u32_as_c_int(id))

\* Font::to_id and Soundbank::to_id
to_id(handle) == u32_as_c_int(handle)

\* ---------------------------------------------------------- file loaders

\* Mutant of path_ok: the result of CString::new is not looked at.
path_ok_unchecked(path) == TRUE

\* `.map_err(|_| FileError::BadFilePath)?` on CString::new: whether the wrapper
\* goes on to the native call.
path_ok(path) == CString_new(path).ok

\* Mutant of sound_result: the pointer is wrapped without the null check.
sound_result_unchecked(p) == [tag |-> "Ok", val |-> p]

\* load_wav: `if p.is_null() { Err(FileNotFound) } else { Ok(Sound(p)) }`
sound_result(p) ==
    IF p = NULL THEN [tag |-> "FileNotFound", val |-> 0] ELSE [tag |-> "Ok", val |-> p]

\* Mutant of music_result: the pointer is wrapped without NonNull::new.
music_result_unchecked(p) == [tag |-> "Ok", val |-> p]

\* Music::load_*: `if let Some(music) = NonNull::new(music) { Ok(..) } else { Err(..) }`
music_result(p) ==
    IF p # NULL THEN [tag |-> "Ok", val |-> p] ELSE [tag |-> "FileNotFound", val |-> 0]

\* install_user_font / install_user_soundbank: `from_id(id as u32).ok_or(FileNotFound)`
id_result(id) ==
    LET h == from_id(c_int_as_u32(id))
    IN  IF h.some THEN [tag |-> "Ok", val |-> h.id] ELSE [tag |-> "FileNotFound", val |-> 0]

BadFilePath(name, path) ==
    /\ Returns(name, <<path>>, <<>>, "BadFilePath", 0)
    /\ UNCHANGED <<nativeAssetVars, handleVars>>

load_gif(path) ==
    /\ Running
    /\ UNCHANGED <<mixerVars, inputVars>>
    /\ IF ~path_ok(path)
       THEN BadFilePath("load_gif", path)
       ELSE \E data \in NativePtrs, hdr \in GifHeaders :
              /\ native_alloc("image", data)
              /\ op' = [name |-> "load_gif", args |-> <<path>>]
              /\ calls' = <<Call("loadgif", <<CString_new(path).cstr>>, data)>>
              /\ IF data = NULL
                 THEN outcome' = [tag |-> "FileNotFound", val |-> 0] /\ images' = images
                 ELSE LET image == [data |-> data,
                                    width |-> c_int_as_u32(hdr[1]),
                                    height |-> c_int_as_u32(hdr[2]),
                                    palette_count |-> c_int_as_u32(hdr[3])]
                      IN  /\ outcome' = [tag |-> "Ok", val |-> data]
                          /\ images' = images \cup {image}
              /\ UNCHANGED <<userfonts, userbanks, sounds, musics, fonts, banks>>
    /\ UNCHANGED <<videoVars, paletteVars, cursorVars, buffer>>

\* Mutant of load_wav: a load that failed is tried a second time.
load_wav_retry(path) ==
    /\ Running
    /\ UNCHANGED <<mixerVars, inputVars>>
    /\ IF ~path_ok(path)
       THEN BadFilePath("load_wav", path)
       ELSE \E p \in NativePtrs :
              /\ native_alloc("sound", p)
              /\ op' = [name |-> "load_wav", args |-> <<path>>]
              /\ calls' = IF p = NULL
                          THEN <<Call("loadwav", <<CString_new(path).cstr>>, NULL),
                                 Call("loadwav", <<CString_new(path).cstr>>, p)>>
                          ELSE <<Call("loadwav", <<CString_new(path).cstr>>, p)>>
              /\ outcome' = sound_result(p)
              /\ sounds' = IF sound_result(p).tag = "Ok"
                           THEN sounds \cup {sound_result(p).val} ELSE sounds
              /\ UNCHANGED <<userfonts, userbanks, images, musics, fonts, banks>>
    /\ UNCHANGED <<videoVars, paletteVars, cursorVars, buffer>>

load_wav(path) ==
    /\ Running
    /\ UNCHANGED <<mixerVars, inputVars>>
    /\ IF ~path_ok(path)
       THEN BadFilePath("load_wav", path)
       ELSE \E p \in NativePtrs :
              /\ native_alloc("sound", p)
              /\ op' = [name |-> "load_wav", args |-> <<path>>]
              /\ calls' = <<Call("loadwav", <<CString_new(path).cstr>>, p)>>
              /\ outcome' = sound_result(p)
              /\ sounds' = IF sound_result(p).tag = "Ok"
                           THEN sounds \cup {sound_result(p).val} ELSE sounds
              /\ UNCHANGED <<userfonts, userbanks, images, musics, fonts, banks>>
    /\ UNCHANGED <<videoVars, paletteVars, cursorVars, buffer>>

\* Music::load_mid, load_mus, load_mod and load_opb have one body, up to the
\* native entry point `fn`.
music_load(name, fn, path) ==
    /\ Running
    /\ UNCHANGED <<mixerVars, inputVars>>
    /\ IF ~path_ok(path)
       THEN BadFilePath(name, path)
       ELSE \E music \in NativePtrs :
              /\ native_alloc("music", music)
              /\ op' = [name |-> name, args |-> <<path>>]
              /\ calls' = <<Call(fn, <<CString_new(path).cstr>>, music)>>
              /\ outcome' = music_result(music)
              /\ musics' = IF music_result(music).tag = "Ok"
                           THEN musics \cup {music_result(music).val} ELSE musics
              /\ UNCHANGED <<userfonts, userbanks, images, sounds, fonts, banks>>
    /\ UNCHANGED <<videoVars, paletteVars, cursorVars, buffer>>

load_mid(path) == music_load("load_mid", "loadmid", path)

load_mus(path) == music_load("load_mus", "loadmus", path)

load_mod(path) == music_load("load_mod", "loadmod", path)

load_opb(path) == music_load("load_opb", "loadopb", path)

install_user_soundbank(filename) ==
    /\ Running
    /\ UNCHANGED <<mixerVars, inputVars>>
    /\ IF ~path_ok(filename)
       THEN BadFilePath("install_user_soundbank", filename)
       ELSE \E soundbank_id \in NativeBankIds :
              /\ userbanks' = userbanks \cup ({soundbank_id} \ {0})
              /\ op' = [name |-> "install_user_soundbank", args |-> <<filename>>]
              /\ calls' = <<Call("installusersoundbank", <<CString_new(filename).cstr>>,
                                 soundbank_id)>>
              /\ outcome' = id_result(soundbank_id)
              /\ banks' = IF id_result(soundbank_id).tag = "Ok"
                          THEN banks \cup {id_result(soundbank_id).val} ELSE banks
              /\ UNCHANGED <<assets, userfonts, images, sounds, musics, fonts>>
    /\ UNCHANGED <<videoVars, paletteVars, cursorVars, buffer>>

install_user_font(filename) ==
    /\ Running
    /\ UNCHANGED <<mixerVars, inputVars>>
    /\ IF ~path_ok(filename)
       THEN BadFilePath("install_user_font", filename)
       ELSE \E font_id \in NativeFontIds :
              /\ userfonts' = userfonts \cup ({font_id} \ {0})
              /\ op' = [name |-> "install_user_font", args |-> <<filename>>]
              /\ calls' = <<Call("installuserfont", <<CString_new(filename).cstr>>,
                                 font_id)>>
              /\ outcome' = id_result(font_id)
              /\ fonts' = IF id_result(font_id).tag = "Ok"
                          THEN fonts \cup {id_result(font_id).val} ELSE fonts
              /\ UNCHANGED <<assets, userbanks, images, sounds, musics, banks>>
    /\ UNCHANGED <<videoVars, paletteVars, cursorVars, buffer>>

\* --------------------------------------------------- native library: mixer

\* createsound(channels, samplerate, framecount, frames) copies `framecount`
\* frames of one 16-bit sample per channel: this many samples.
createsound_reads(channels, framecount) == framecount * channels

\* setsoundmode: switches the mixer to the mode with the given constant.
setsoundmode(mode) == soundmode' = soundmode_t[mode + 1]

\* playmusic: starts the track, stopping any other music currently playing.
playmusic(music, loop, volume) == playing' = {[music |-> music, loop |-> loop # 0]}

\* stopmusic: stops any music that is currently playing.
stopmusic == playing' = {}

\* musicplaying: non-zero while a track is playing.
musicplaying == IF playing # {} THEN 1 ELSE 0

\* The mixer reaches the end of a track that is not looping.
track_ends ==
    /\ Running
    /\ \E t \in playing : ~t.loop /\ playing' = playing \ {t}
    /\ UNCHANGED <<videoVars, paletteVars, cursorVars, nativeAssetVars, buffer,
                   handleVars, callVars, soundmode, inputVars>>

\* ------------------------------------------------- handles and playback

DefaultFonts == {DEFAULT_FONT_8X8, DEFAULT_FONT_8X16, DEFAULT_FONT_9X16}

DefaultBanks == {DEFAULT_SOUNDBANK_AWE32, DEFAULT_SOUNDBANK_SB16}

\* Font::from_id, called by the application: the font it gets, if any, is one
\* more Font value it holds.
Font_from_id(id) ==
    /\ Running
    /\ UNCHANGED <<mixerVars, inputVars>>
    /\ LET h == from_id(id)
       IN  /\ Returns("Font::from_id", <<id>>, <<>>, IF h.some THEN "Some" ELSE "None", h.id)
           /\ fonts' = IF h.some THEN fonts \cup {h.id} ELSE fonts
    /\ UNCHANGED <<videoVars, paletteVars, cursorVars, nativeAssetVars, buffer, images,
                   sounds, musics, banks>>

\* Soundbank::from_id, called by the application.
Soundbank_from_id(id) ==
    /\ Running
    /\ UNCHANGED <<mixerVars, inputVars>>
    /\ LET h == from_id(id)
       IN  /\ Returns("Soundbank::from_id", <<id>>, <<>>,
                      IF h.some THEN "Some" ELSE "None", h.id)
           /\ banks' = IF h.some THEN banks \cup {h.id} ELSE banks
    /\ UNCHANGED <<videoVars, paletteVars, cursorVars, nativeAssetVars, buffer, images,
                   sounds, musics, fonts>>

set_text_style(font, bold, italic, underline) ==
    /\ Running
    /\ UNCHANGED <<mixerVars, inputVars>>
    /\ Returns("set_text_style", <<font, bold, italic, underline>>,
               <<Call("settextstyle",
                      <<to_id(font), bool_as_c_int(bold), bool_as_c_int(italic),
                        bool_as_c_int(underline)>>, 0)>>,
               "Unit", 0)
    /\ UNCHANGED <<videoVars, paletteVars, cursorVars, nativeAssetVars, buffer,
                   handleVars>>

set_soundbank(soundbank) ==
    /\ Running
    /\ UNCHANGED <<mixerVars, inputVars>>
    /\ Returns("set_soundbank", <<soundbank>>,
               <<Call("setsoundbank", <<to_id(soundbank)>>, 0)>>, "Unit", 0)
    /\ UNCHANGED <<videoVars, paletteVars, cursorVars, nativeAssetVars, buffer,
                   handleVars>>

\* create_sound wraps whatever createsound returns.
create_sound(channels, sample_rate, samples) ==
    /\ Running
    /\ UNCHANGED <<mixerVars, inputVars>>
    /\ \E p \in NativePtrs :
         /\ native_alloc("sound", p)
         /\ Returns("create_sound", <<channels, sample_rate, samples>>,
                    <<Call("createsound",
                           <<u32_as_c_int(channels), u32_as_c_int(sample_rate),
                             Len(samples), samples>>, p)>>,
                    "Value", p)
         /\ sounds' = sounds \cup {p}
    /\ UNCHANGED <<videoVars, paletteVars, cursorVars, userfonts, userbanks, buffer,
                   images, musics, fonts, banks>>

play_sound(channel, sound, loop_, volume) ==
    /\ Running
    /\ UNCHANGED <<mixerVars, inputVars>>
    /\ Returns("play_sound", <<channel, sound, loop_, volume>>,
               <<Call("playsound",
                      <<u8_as_c_int(channel), sound, bool_as_c_int(loop_),
                        u8_as_c_int(volume)>>, 0)>>,
               "Unit", 0)
    /\ UNCHANGED <<videoVars, paletteVars, cursorVars, nativeAssetVars, buffer,
                   handleVars>>

\* The track play_music hands to playmusic: `music.0.as_ptr()`.
play_music_ptr(music) == music

play_music(music, loop_, volume) ==
    /\ Running
    /\ UNCHANGED <<soundmode, inputVars>>
    /\ playmusic(play_music_ptr(music), bool_as_c_int(loop_), u8_as_c_int(volume))
    /\ Returns("play_music", <<music, loop_, volume>>,
               <<Call("playmusic",
                      <<play_music_ptr(music), bool_as_c_int(loop_), u8_as_c_int(volume)>>,
                      0)>>,
               "Unit", 0)
    /\ UNCHANGED <<videoVars, paletteVars, cursorVars, nativeAssetVars, buffer,
                   handleVars>>

set_sound_mode(sound_mode) ==
    /\ Running
    /\ setsoundmode(SoundMode_as_c_uint(sound_mode))
    /\ Returns("set_sound_mode", <<sound_mode>>,
               <<Call("setsoundmode", <<SoundMode_as_c_uint(sound_mode)>>, 0)>>, "Unit", 0)
    /\ UNCHANGED <<videoVars, paletteVars, cursorVars, nativeAssetVars, buffer,
                   handleVars, playing, inputVars>>

stop_music ==
    /\ Running
    /\ stopmusic
    /\ Returns("stop_music", <<>>, <<Call("stopmusic", <<>>, 0)>>, "Unit", 0)
    /\ UNCHANGED <<videoVars, paletteVars, cursorVars, nativeAssetVars, buffer,
                   handleVars, soundmode, inputVars>>

\* Mutant of is_music_playing_result: the comparison inverted.
is_music_playing_inverted(v) == v = 0

\* `dos_like_sys::musicplaying() != 0`
is_music_playing_result(v) == v # 0

is_music_playing ==
    /\ Running
    /\ Returns("is_music_playing", <<>>, <<Call("musicplaying", <<>>, musicplaying)>>,
               "Value", is_music_playing_result(musicplaying))
    /\ UNCHANGED <<videoVars, paletteVars, cursorVars, nativeAssetVars, buffer,
                   handleVars, mixerVars, inputVars>>

\* Mutant of try_create_mus_result: the pointer is wrapped as it comes.
try_create_mus_result_unchecked(music) == [tag |-> "Some", val |-> music]

\* Music::try_create_mus: `NonNull::new(music)` decides between Some and None.
try_create_mus_result(music) ==
    IF music # NULL THEN [tag |-> "Some", val |-> music] ELSE [tag |-> "None", val |-> 0]

try_create_mus(data) ==
    /\ Running
    /\ UNCHANGED <<mixerVars, inputVars>>
    /\ \E music \in NativePtrs :
         /\ native_alloc("music", music)
         /\ Returns("try_create_mus", <<data>>,
                    <<Call("createmus", <<data, Len(data)>>, music)>>,
                    try_create_mus_result(music).tag, try_create_mus_result(music).val)
         /\ musics' = IF music # NULL THEN musics \cup {music} ELSE musics
    /\ UNCHANGED <<videoVars, paletteVars, cursorVars, userfonts, userbanks, buffer,
                   images, sounds, fonts, banks>>

\* Music::create_mus: try_create_mus(data).expect("Invalid MUS data")
create_mus(data) ==
    /\ Running
    /\ UNCHANGED <<mixerVars, inputVars>>
    /\ \E music \in NativePtrs :
         LET r == try_create_mus_result(music)
         IN  /\ native_alloc("music", music)
             /\ Returns("create_mus", <<data>>,
                        <<Call("createmus", <<data, Len(data)>>, music)>>,
                        IF r.tag = "Some" THEN "Value" ELSE "Panic", r.val)
             /\ musics' = IF r.tag = "Some" THEN musics \cup {r.val} ELSE musics
    /\ UNCHANGED <<videoVars, paletteVars, cursorVars, userfonts, userbanks, buffer,
                   images, sounds, fonts, banks>>

\* ------------------------------------------------- native library: drawing

\* The indices of `source` the native blit and maskblit read: the pixel at
\* column src_x + i of row src_y + j of an image `width` pixels wide, for every
\* pixel of the rectangle of src_width by src_height pixels.
blit_reads(width, src_x, src_y, src_width, src_height) ==
    {(src_x + i) + (src_y + j) * width :
        i \in 0..(src_width - 1), j \in 0..(src_height - 1)}

\* Bytes of a C int, and of an element of the `&[u16]` slice of coordinates.
SIZEOF_C_INT == 4
SIZEOF_U16 == 2

\* drawpoly / fillpoly(int* points_xy, int count) read `count` points, each of
\* two C ints, from the pointer on.
poly_bytes_read(count) == count * 2 * SIZEOF_C_INT

\* The k-th C int (from 1) the native function finds at a pointer to u16
\* elements: two adjacent elements make one int (the low half first on a
\* little-endian machine).
poly_int_read(points, k) == points[2 * k - 1] + 65536 * points[2 * k]

\* ----------------------------------------------------------------- drawing

\* `v as usize` of a u16: widening, value-preserving.
u16_as_usize(v) == v

\* Mutant of blit_too_short: a source of exactly width * height bytes is
\* refused as well.
blit_too_short_or_exact(width, height, len) ==
    u16_as_usize(width) * u16_as_usize(height) >= len

\* `width as usize * height as usize > source.len()`
blit_too_short(width, height, len) == u16_as_usize(width) * u16_as_usize(height) > len

\* blit and mask_blit have one body up to the native entry point `fn` and the
\* trailing colour key (`rest`).  `source` is a slice: a pointer and a length;
\* `src` is the source rectangle <<src_x, src_y, src_width, src_height>>.
blit_body(name, fn, x, y, source, width, height, src, rest) ==
    /\ Running
    /\ LET src_x == src[1]
           src_y == src[2]
           src_width == src[3]
           src_height == src[4]
           args == <<x, y, source, width, height, src_x, src_y, src_width, src_height>>
                    \o rest
       IN  IF blit_too_short(width, height, source.len)
           THEN Panics(name, args)
           ELSE Returns(name, args,
                        <<Call(fn,
                               <<u16_as_c_int(x), u16_as_c_int(y), source.ptr,
                                 u16_as_c_int(width), u16_as_c_int(height),
                                 u16_as_c_int(src_x), u16_as_c_int(src_y),
                                 u16_as_c_int(src_width), u16_as_c_int(src_height)>>
                               \o [i \in DOMAIN rest |-> u8_as_c_int(rest[i])], 0)>>,
                        "Unit", 0)
    /\ UNCHANGED <<videoVars, paletteVars, cursorVars, nativeAssetVars, buffer,
                   handleVars, mixerVars, inputVars>>

blit(x, y, source, width, height, src_x, src_y, src_width, src_height) ==
    blit_body("blit", "blit", x, y, source, width, height,
              <<src_x, src_y, src_width, src_height>>, <<>>)

mask_blit(x, y, source, width, height, src_x, src_y, src_width, src_height, color_key) ==
    blit_body("mask_blit", "maskblit", x, y, source, width, height,
              <<src_x, src_y, src_width, src_height>>, <<color_key>>)

\* Mutant of poly_ok: only the parity is asserted.
poly_ok_even(len) == len % 2 = 0

\* `assert!(points.len() > 0 && points.len() % 2 == 0)`
poly_ok(len) == len > 0 /\ len % 2 = 0

\* draw_poly and fill_poly have one body up to the native entry point `fn`.
poly_body(name, fn, points) ==
    /\ Running
    /\ IF poly_ok(Len(points))
       THEN Returns(name, <<points>>, <<Call(fn, <<points, Len(points)>>, 0)>>, "Unit", 0)
       ELSE Panics(name, <<points>>)
    /\ UNCHANGED <<videoVars, paletteVars, cursorVars, nativeAssetVars, buffer,
                   handleVars, mixerVars, inputVars>>

draw_poly(points) == poly_body("draw_poly", "drawpoly", points)

fill_poly(points) == poly_body("fill_poly", "fillpoly", points)

\* ------------------------------------------------------------------ images

\* `palette: [u8; 768]`
PALETTE_SIZE == 768

\* `&self.palette[..end]`: the first `end` bytes of the palette array; the
\* index operation panics when `end` is beyond the array.
palette_slice(end) ==
    IF end > PALETTE_SIZE
    THEN [tag |-> "Panic", val |-> 0]
    ELSE [tag |-> "Value", val |-> [start |-> 0, len |-> end]]

\* std::slice::from_raw_parts(self.data, self.width as usize * self.height as usize)
data_slice(image) ==
    [tag |-> "Value", val |-> [start |-> image.data, len |-> image.width * image.height]]

\* An accessor of an Image the application holds; it calls nothing.
Image_get(name, image, slice) ==
    /\ Running
    /\ Returns(name, <<image>>, <<>>, slice.tag, slice.val)
    /\ UNCHANGED <<videoVars, paletteVars, cursorVars, nativeAssetVars, buffer,
                   handleVars, mixerVars, inputVars>>

\* Image::data
Image_data(image) == Image_get("Image::data", image, data_slice(image))

\* Image::data_mut
Image_data_mut(image) == Image_get("Image::data_mut", image, data_slice(image))

\* Image::palette: `&self.palette[..self.palette_count as usize * 3]`
Image_palette(image) ==
    Image_get("Image::palette", image, palette_slice(image.palette_count * 3))

\* Image::palette_mut: `&mut self.palette[..self.palette_count as usize]`
Image_palette_mut(image) ==
    Image_get("Image::palette_mut", image, palette_slice(image.palette_count))

\* ------------------------------------------------------- dropping handles

\* Mutant of drop_glue: dropping the handle frees the native allocation.
drop_glue_freeing(type, ptr) == assets' = assets \ {[type |-> type, ptr |-> ptr]}

\* What runs when an Image, Sound or Music value is dropped: the types have no
\* Drop implementation, so nothing runs and the native allocation stays.
drop_glue(type, ptr) == assets' = assets

\* The application drops a handle it holds: the value is gone, no wrapper and
\* no native function is called.
drop_handle(type, ptr) ==
    /\ Running
    /\ drop_glue(type, ptr)
    /\ Returns("drop", <<type, ptr>>, <<>>, "Unit", 0)
    /\ images' = IF type = "image" THEN {i \in images : i.data # ptr} ELSE images
    /\ sounds' = IF type = "sound" THEN sounds \ {ptr} ELSE sounds
    /\ musics' = IF type = "music" THEN musics \ {ptr} ELSE musics
    /\ UNCHANGED <<videoVars, paletteVars, cursorVars, userfonts, userbanks, buffer,
                   fonts, banks, mixerVars, inputVars>>

Image_drop(image) == drop_handle("image", image.data)

Sound_drop(sound) == drop_handle("sound", sound)

Music_drop(music) == drop_handle("music", music)

\* --------------------------------------------- threads sharing an Image

\* `unsafe impl Send for Image {}` and `unsafe impl Sync for Image {}`: several
\* threads may hold a shared reference to one Image.
Threads == {"main", "worker"}

\* The receivers of data and data_mut: `pub fn data(&self)` and
\* `pub fn data_mut(&self)`.
Image_data_receiver == "&self"

Image_data_mut_receiver == "&self"

\* What the borrow checker asks of a call with the given receiver while views
\* of the image are live, each keeping its borrow of the Image: `&self` needs
\* no exclusive borrow to be live, `&mut self` needs no borrow at all.
borrow_allowed(receiver, image) ==
    LET live == {v \in views : v.image = image.data}
    IN  IF receiver = "&self"
        THEN \A v \in live : v.borrow = "&self"
        ELSE live = {}

\* The view a thread holds from the call on, and the borrow it keeps alive.
View(thread, image, access, receiver) ==
    [thread |-> thread, image |-> image.data, access |-> access, borrow |-> receiver]

\* A thread calls image.data() and keeps the slice.
thread_data(thread, image) ==
    /\ borrow_allowed(Image_data_receiver, image)
    /\ Image_data(image)
    /\ views' = views \cup {View(thread, image, "shared", Image_data_receiver)}
    /\ UNCHANGED <<shutdown, pc, steps>>

\* A thread calls image.data_mut() and keeps the slice.
thread_data_mut(thread, image) ==
    /\ borrow_allowed(Image_data_mut_receiver, image)
    /\ Image_data_mut(image)
    /\ views' = views \cup {View(thread, image, "mutable", Image_data_mut_receiver)}
    /\ UNCHANGED <<shutdown, pc, steps>>

\* A thread lets go of a view: the slice goes out of scope.
thread_release(v) ==
    /\ Running
    /\ v \in views
    /\ views' = views \ {v}
    /\ UNCHANGED <<videoVars, paletteVars, cursorVars, nativeAssetVars, buffer,
                   handleVars, callVars, mixerVars, inputVars, shutdown, pc, steps>>

\* --------------------------------------------------- native library: input

\* The two event buffers of the library: key events and character events.
InputKinds == {"keys", "chars"}

\* Entries of an event buffer.
INPUT_BUFFER_SIZE == 256

\* The flag the library sets in the entry of a key that was released: the top
\* bit of the 32-bit entry, written here in the signed reading of the entry.
KEY_MODIFIER_RELEASED == -2147483647 - 1

\* Key codes used: KEY_ESCAPE and KEY_A.
KEY_ESCAPE == 27
KEY_A == 65

\* The entry the library queues for a key event.
key_entry(code, pressed) == IF pressed THEN code ELSE code + KEY_MODIFIER_RELEASED

\* The library's input thread queues an event, while there is room for it.
queue_event(which, e) ==
    /\ Running
    /\ Len(typed[which]) < MaxEvents
    /\ Len(inqueue[which]) < INPUT_BUFFER_SIZE
    /\ inqueue' = [inqueue EXCEPT ![which] = Append(@, e)]
    /\ typed' = [typed EXCEPT ![which] = Append(@, e)]
    /\ UNCHANGED <<videoVars, paletteVars, cursorVars, nativeAssetVars, buffer,
                   handleVars, callVars, mixerVars, inbuf, got>>

\* A key is held down and repeats until `n` events are queued.
queue_repeat(which, e, n) ==
    /\ Running
    /\ typed[which] = <<>>
    /\ n <= INPUT_BUFFER_SIZE
    /\ inqueue' = [inqueue EXCEPT ![which] = [i \in 1..n |-> e]]
    /\ typed' = [typed EXCEPT ![which] = [i \in 1..n |-> e]]
    /\ UNCHANGED <<videoVars, paletteVars, cursorVars, nativeAssetVars, buffer,
                   handleVars, callVars, mixerVars, inbuf, got>>

\* What readkeys / readchars hand out: the queued events from entry 0 on, then
\* the zero terminator if there is room for it, then whatever the buffer held.
handed_out(which) ==
    LET q == inqueue[which]
    IN  [i \in 0..(INPUT_BUFFER_SIZE - 1) |->
            IF i < Len(q) THEN q[i + 1] ELSE IF i = Len(q) THEN 0 ELSE inbuf[which][i]]

\* readkeys / readchars consume the queue.
consume(which) ==
    /\ inbuf' = [inbuf EXCEPT ![which] = handed_out(which)]
    /\ inqueue' = [inqueue EXCEPT ![which] = <<>>]

readkeys == handed_out("keys")

readchars == handed_out("chars")

\* ---------------------------------------------------------- input wrappers

\* `for i in 0..=255`
LAST_INDEX == 255

\* Mutant of loop_breaks: the terminator is not looked for.
loop_breaks_never(c) == FALSE

\* `if c == 0 { break; }`
loop_breaks(c) == c = 0

\* Mutant of read_loop: the loop skips a zero entry and goes on (`continue`)
\* instead of stopping at it.
read_loop_skipping(p) ==
    [items |-> SelectSeq([j \in 1..(LAST_INDEX + 1) |-> p[j - 1]], LAMBDA c : c # 0),
     derefs |-> LAST_INDEX + 1]

\* The loop of read_keys and read_chars over the buffer `p`: it reads the
\* entries from index 0 on and pushes them, until it breaks at index `stop` or
\* has gone through the index LAST_INDEX.  The result is the entries pushed and
\* the number of entries read.
read_loop(p) ==
    LET stop == CHOOSE i \in 0..(LAST_INDEX + 1) :
                    /\ i = LAST_INDEX + 1 \/ loop_breaks(p[i])
                    /\ \A j \in 0..(i - 1) : ~loop_breaks(p[j])
    IN  [items |-> [j \in 1..stop |-> p[j - 1]],
         derefs |-> IF stop <= LAST_INDEX THEN stop + 1 ELSE stop]

\* Mutant of KeyCode_new: the entry is narrowed to a byte, as read_chars does.
KeyCode_new_u8(c) == c % 256

\* `KeyCode(c)`
KeyCode_new(c) == c

read_keys ==
    /\ Running
    /\ \E p \in {readkeys} : \E r \in {read_loop(p)} :
         \E keys \in {[j \in 1..Len(r.items) |-> KeyCode_new(r.items[j])]} :
           /\ consume("keys")
           /\ Returns("read_keys", <<>>, <<Call("readkeys", <<>>, p)>>, "Value",
                      [items |-> keys, derefs |-> r.derefs])
           /\ got' = [got EXCEPT !["keys"] = @ \o keys]
    /\ UNCHANGED <<videoVars, paletteVars, cursorVars, nativeAssetVars, buffer,
                   handleVars, mixerVars, typed>>

read_chars ==
    /\ Running
    /\ \E p \in {readchars} : \E r \in {read_loop(p)} :
         \E keys \in {[j \in 1..Len(r.items) |-> as_u8(r.items[j])]} :
           /\ consume("chars")
           /\ Returns("read_chars", <<>>, <<Call("readchars", <<>>, p)>>, "Value",
                      [items |-> keys, derefs |-> r.derefs])
           /\ got' = [got EXCEPT !["chars"] = @ \o keys]
    /\ UNCHANGED <<videoVars, paletteVars, cursorVars, nativeAssetVars, buffer,
                   handleVars, mixerVars, typed>>

\* The accessors of a key event that examples/keyboard.rs calls.
is_pressed(key) == key >= 0

key_code(key) == IF key >= 0 THEN key ELSE key - KEY_MODIFIER_RELEASED

\* --------------------------------------------------------------------- mouse

\* What the library reports of the mouse, which the user moves: a position on
\* the screen, and the movement since the last frame, negative when the mouse
\* moved left or up.
MouseXs == 0..(screenwidth - 1)
MouseYs == 0..(screenheight - 1)
MouseMoves == (-20)..20

\* A mouse function: the value of the native function `fn`, `as u16`.
mouse_get(name, fn, v) ==
    /\ Running
    /\ Returns(name, <<>>, <<Call(fn, <<>>, v)>>, "Value", as_u16(v))
    /\ UNCHANGED <<videoVars, paletteVars, cursorVars, nativeAssetVars, buffer,
                   handleVars, mixerVars, inputVars>>

mouse_x == \E v \in MouseXs : mouse_get("mouse_x", "mousex", v)

mouse_y == \E v \in MouseYs : mouse_get("mouse_y", "mousey", v)

mouse_rel_x == \E v \in MouseMoves : mouse_get("mouse_rel_x", "mouserelx", v)

mouse_rel_y == \E v \in MouseMoves : mouse_get("mouse_rel_y", "mouserely", v)

\* ------------------------------- native library: frames, key state, shutdown

\* The window is closed: the library sets its shutdown flag.  Nothing clears it.
close_requested ==
    /\ Running
    /\ ~shutdown
    /\ shutdown' = TRUE
    /\ UNCHANGED <<videoVars, paletteVars, cursorVars, nativeAssetVars, buffer,
                   handleVars, callVars, mixerVars, inputVars, pc, views, steps>>

\* shuttingdown(): the flag, as a C int.
shuttingdown == IF shutdown THEN 1 ELSE 0

\* waitvbl() blocks until the next vertical blank and returns nothing.
waitvbl == 0

\* keystate(key): whether the key is down, that is, whether the last event the
\* library queued for it is a press.
keystate(key) ==
    LET es == typed["keys"]
        of_key == {i \in DOMAIN es : key_code(es[i]) = key}
    IN  IF of_key = {} THEN 0
        ELSE IF is_pressed(es[CHOOSE i \in of_key : \A j \in of_key : j <= i]) THEN 1
        ELSE 0

\* ---------------------------------------------- frames, key state, shutdown

\* Mutant of shutting_down_result: the flag is read the wrong way round.
shutting_down_result_inverted(v) == v = 0

\* `dos_like_sys::shuttingdown() != 0`
shutting_down_result(v) == v # 0

shutting_down ==
    /\ Running
    /\ Returns("shutting_down", <<>>, <<Call("shuttingdown", <<>>, shuttingdown)>>,
               "Value", shutting_down_result(shuttingdown))
    /\ UNCHANGED <<videoVars, paletteVars, cursorVars, nativeAssetVars, buffer,
                   handleVars, mixerVars, inputVars>>

wait_vbl ==
    /\ Running
    /\ Returns("wait_vbl", <<>>, <<Call("waitvbl", <<>>, waitvbl)>>, "Unit", 0)
    /\ UNCHANGED <<videoVars, paletteVars, cursorVars, nativeAssetVars, buffer,
                   handleVars, mixerVars, inputVars>>

\* `dos_like_sys::keystate(key.0) != 0`
key_state(key) ==
    /\ Running
    /\ Returns("key_state", <<key>>, <<Call("keystate", <<key>>, keystate(key))>>,
               "Value", keystate(key) # 0)
    /\ UNCHANGED <<videoVars, paletteVars, cursorVars, nativeAssetVars, buffer,
                   handleVars, mixerVars, inputVars>>

\* ------------------------------------------------ the application's main loop

\* The loop of the examples:
\*     while !shutting_down() { wait_vbl(); let keys = read_keys(); ...
\*                              if key_state(KeyCode::KEY_ESCAPE) { break; } }
\* `pc` is the call the loop makes next.  What the body draws for each key is
\* left out: it reads neither the flag nor the key state.
main_loop_poll ==
    /\ pc = "poll"
    /\ shutting_down
    /\ pc' = IF outcome'.val THEN "done" ELSE "wait"
    /\ UNCHANGED <<shutdown, views, steps>>

main_loop_wait ==
    /\ pc = "wait"
    /\ wait_vbl
    /\ pc' = "keys"
    /\ UNCHANGED <<shutdown, views, steps>>

main_loop_keys ==
    /\ pc = "keys"
    /\ read_keys
    /\ pc' = "escape"
    /\ UNCHANGED <<shutdown, views, steps>>

main_loop_escape ==
    /\ pc = "escape"
    /\ key_state(KEY_ESCAPE)
    /\ pc' = IF outcome'.val THEN "done" ELSE "poll"
    /\ UNCHANGED <<shutdown, views, steps>>

main_loop == main_loop_poll \/ main_loop_wait \/ main_loop_keys \/ main_loop_escape

\* ------------------------------------------------------------ initial state

\* The state of a program entering dosmain: the default mode, single buffering,
\* nothing loaded or installed, no view and no handle held.
Init ==
    /\ videomode = DefaultVideoMode
    /\ doublebuffer = FALSE
    /\ drawbuf = 0
    /\ palette = [i \in PalRange |-> <<0, 0, 0>>]
    /\ curx = 0
    /\ cury = 0
    /\ assets = {}
    /\ userfonts = {}
    /\ userbanks = {}
    /\ buffer = NoView
    /\ images = {}
    /\ sounds = {}
    /\ musics = {}
    /\ fonts = {}
    /\ banks = {}
    /\ op = [name |-> "dosmain", args |-> <<>>]
    /\ calls = <<>>
    /\ outcome = [tag |-> "Unit", val |-> 0]
    /\ lastSet = NoSet
    /\ lastGoto = None
    /\ soundmode = DefaultSoundMode
    /\ playing = {}
    /\ inqueue = [k \in InputKinds |-> <<>>]
    /\ inbuf = [k \in InputKinds |-> [i \in 0..(INPUT_BUFFER_SIZE - 1) |-> 0]]
    /\ typed = [k \in InputKinds |-> <<>>]
    /\ got = [k \in InputKinds |-> <<>>]
    /\ shutdown = FALSE
    /\ pc = "poll"
    /\ views = {}
    /\ steps = 0

\* ----------------------------------------------------- video specification

\* A call made in a specification of one part of the API: the whole-API call
\* counter stays put, and so do the shutdown flag, the main loop and the views
\* of the threads, which only the specifications of those parts move.
Part(A) == A /\ UNCHANGED <<steps, appVars>>

NextVideo ==
    \/ Part(\E mode \in VideoMode : set_video_mode(mode))
    \/ Part(\E enabled \in BOOLEAN : set_double_buffer(enabled))
    \/ Part(screen_width)
    \/ Part(screen_height)
    \/ Part(screen_buffer)
    \/ Part(swap_buffers)

SpecVideo == Init /\ [][NextVideo]_vars

\* --------------------------------------------------- palette specification

\* Palette indices tried: the two ends of the palette, the first index past it,
\* 2^32 - 1 and 2^32.
PalIndices ==
    {Usize(0), Usize(255), Usize(256), [hi |-> 0, lo |-> -1], [hi |-> 1, lo |-> 0]}

\* Colour components tried.
Components == {0, 255}

NextPal ==
    \/ Part(\E index \in PalIndices, r \in Components, g \in Components,
               b \in Components : set_pal(index, r, g, b))
    \/ Part(\E index \in PalIndices : pal(index))

SpecPal == Init /\ [][NextPal]_vars

\* ------------------------------------------------------ text specification

\* Cursor coordinates tried: the first cells of the grid and a position outside
\* every text grid.
Coords == (0..MaxCoord) \cup {640}

\* Pixel coordinates and widths tried by the text blits.
PixelCoords == {0, 8}
PixelWidths == {64}

\* NUL-terminated strings, as put_cstr takes them.
CStrings == {CString_new(s).cstr : s \in {t \in Strings : CString_new(t).ok}}

NextText ==
    \/ Part(\E mode \in {"Text40x25_8x8", "Text80x50_8x8", "Graphics320x200"} :
               set_video_mode(mode))
    \/ Part(\E x \in Coords, y \in Coords : goto_xy(x, y))
    \/ Part(where_x)
    \/ Part(where_y)
    \/ Part(\E string \in Strings : put_str(string))
    \/ Part(\E text \in CStrings :
               /\ Running
               /\ UNCHANGED <<mixerVars, inputVars>>
               /\ put_cstr(text)
               /\ op' = [name |-> "put_cstr", args |-> <<text>>])
    \/ Part(\E x \in PixelCoords, text \in Strings : out_text_xy(x, 8, text))
    \/ Part(\E x \in PixelCoords, text \in Strings, width \in PixelWidths :
               wrap_text_xy(x, 8, text, width))
    \/ Part(\E x \in PixelCoords, text \in Strings, width \in PixelWidths :
               center_text_xy(x, 8, text, width))

SpecText == Init /\ [][NextText]_vars

\* ----------------------------------------------- file loading specification

NextFiles ==
    \/ Part(\E path \in Strings : load_gif(path))
    \/ Part(\E path \in Strings : load_wav(path))
    \/ Part(\E path \in Strings : load_mid(path))
    \/ Part(\E path \in Strings : load_mus(path))
    \/ Part(\E path \in Strings : load_mod(path))
    \/ Part(\E path \in Strings : load_opb(path))
    \/ Part(\E filename \in Strings : install_user_soundbank(filename))
    \/ Part(\E filename \in Strings : install_user_font(filename))

SpecFiles == Init /\ [][NextFiles]_vars

\* ---------------------------------------------------- handles specification

\* Ids the application asks from_id for: 0 and an id the library never hands out.
AskedIds == {0, 99}

\* A path of an asset, as the application names one.
AssetPaths == {<<65>>}

\* Sample buffers handed to create_sound, and data handed to create_mus.
SampleBuffers == {<<>>, <<0, 0>>}
MusData == {<<77>>}

NextHandles ==
    \/ Part(\E path \in AssetPaths : load_wav(path))
    \/ Part(\E path \in AssetPaths : load_mid(path))
    \/ Part(\E filename \in AssetPaths : install_user_soundbank(filename))
    \/ Part(\E filename \in AssetPaths : install_user_font(filename))
    \/ Part(\E id \in AskedIds : Font_from_id(id))
    \/ Part(\E id \in AskedIds : Soundbank_from_id(id))
    \/ Part(\E font \in fonts \cup DefaultFonts, bold \in BOOLEAN :
               set_text_style(font, bold, FALSE, TRUE))
    \/ Part(\E soundbank \in banks \cup DefaultBanks : set_soundbank(soundbank))
    \/ Part(\E samples \in SampleBuffers : create_sound(2, 11025, samples))
    \/ Part(\E sound \in sounds, loop_ \in BOOLEAN : play_sound(0, sound, loop_, 255))
    \/ Part(\E music \in musics, loop_ \in BOOLEAN : play_music(music, loop_, 255))
    \/ Part(\E data \in MusData : try_create_mus(data))
    \/ Part(\E data \in MusData : create_mus(data))

SpecHandles == Init /\ [][NextHandles]_vars

\* --------------------------------------------------- whole-API specification

\* A call made in the whole-API specification, which follows every sequence of
\* at most MaxCalls wrapper calls.
Api(A) == steps < MaxCalls /\ steps' = steps + 1 /\ A /\ UNCHANGED appVars

\* Strings tried in the whole-API specification: a clean one, and one with an
\* embedded NUL byte.
ApiStrings == {<<65>>, <<65, 0>>}

NextApi ==
    \/ Api(\E mode \in {"Text40x25_8x8", "Graphics320x200"} : set_video_mode(mode))
    \/ Api(\E enabled \in BOOLEAN : set_double_buffer(enabled))
    \/ Api(screen_width)
    \/ Api(screen_height)
    \/ Api(screen_buffer)
    \/ Api(swap_buffers)
    \/ Api(\E index \in {Usize(0), Usize(256)} : set_pal(index, 255, 0, 0))
    \/ Api(pal(Usize(0)))
    \/ Api(goto_xy(1, 2))
    \/ Api(where_x)
    \/ Api(where_y)
    \/ Api(\E string \in ApiStrings : put_str(string))
    \/ Api(/\ Running
           /\ UNCHANGED <<mixerVars, inputVars>>
           /\ put_cstr(<<65, 0>>)
           /\ op' = [name |-> "put_cstr", args |-> <<<<65, 0>>>>])
    \/ Api(\E text \in ApiStrings : out_text_xy(0, 8, text))
    \/ Api(\E text \in ApiStrings : wrap_text_xy(0, 8, text, 64))
    \/ Api(\E text \in ApiStrings : center_text_xy(0, 8, text, 64))
    \/ Api(\E path \in ApiStrings : load_gif(path))
    \/ Api(\E path \in ApiStrings : load_wav(path))
    \/ Api(\E path \in ApiStrings : load_mid(path))
    \/ Api(\E path \in ApiStrings : load_mus(path))
    \/ Api(\E path \in ApiStrings : load_mod(path))
    \/ Api(\E path \in ApiStrings : load_opb(path))
    \/ Api(\E filename \in ApiStrings : install_user_soundbank(filename))
    \/ Api(\E filename \in ApiStrings : install_user_font(filename))
    \/ Api(\E id \in AskedIds : Font_from_id(id))
    \/ Api(\E id \in AskedIds : Soundbank_from_id(id))
    \/ Api(\E font \in fonts \cup {DEFAULT_FONT_8X8} : set_text_style(font, TRUE, FALSE, FALSE))
    \/ Api(\E soundbank \in banks \cup {DEFAULT_SOUNDBANK_SB16} : set_soundbank(soundbank))
    \/ Api(create_sound(2, 11025, <<0, 0>>))
    \/ Api(\E sound \in sounds : play_sound(0, sound, FALSE, 255))
    \/ Api(\E music \in musics : play_music(music, TRUE, 255))
    \/ Api(\E data \in MusData : try_create_mus(data))
    \/ Api(\E data \in MusData : create_mus(data))

SpecApi == Init /\ [][NextApi]_vars

\* ------------------------------------------------------ modes specification

NextModes ==
    \/ Part(\E mode \in VideoMode : set_video_mode(mode))
    \/ Part(\E sound_mode \in SoundMode : set_sound_mode(sound_mode))
    \/ Part(screen_width)
    \/ Part(screen_height)

SpecModes == Init /\ [][NextModes]_vars

\* ------------------------------------------------- mode kinds specification

\* The methods of VideoMode that tell text from graphics, asked of every
\* variant, whatever mode the library is in.
NextKinds ==
    \/ Part(\E mode \in VideoMode : set_video_mode(mode))
    \/ Part(\E mode \in VideoMode : VideoMode_kind(mode))
    \/ Part(\E mode \in VideoMode : VideoMode_is_graphics(mode))
    \/ Part(\E mode \in VideoMode : VideoMode_is_text(mode))

SpecKinds == Init /\ [][NextKinds]_vars

\* ---------------------------------------------------- drawing specification

\* Source slices handed to blit and mask_blit: a pointer and a length.
SourceLens == {0, 5, 6, 64000}
Sources == {[ptr |-> 1, len |-> n] : n \in SourceLens}

\* Dimensions of the source data that blit and mask_blit are told.
BlitWidths == {0, 2, 3, 320}
BlitHeights == {0, 2, 200}

\* Lists of coordinates handed to draw_poly and fill_poly.
RECURSIVE PointsUpTo(_)
PointsUpTo(n) ==
    IF n = 0 THEN {<<>>}
    ELSE LET shorter == PointsUpTo(n - 1)
         IN  shorter \cup {Append(s, c) : s \in shorter, c \in {0, 10}}

PointLists == PointsUpTo(MaxPoints)

NextDraw ==
    \/ Part(\E source \in Sources, width \in BlitWidths, height \in BlitHeights :
               blit(8, 0, source, width, height, 0, 1, 2, 1))
    \/ Part(\E source \in Sources, width \in BlitWidths, height \in BlitHeights :
               mask_blit(8, 0, source, width, height, 0, 1, 2, 1, 255))
    \/ Part(\E points \in PointLists : draw_poly(points))
    \/ Part(\E points \in PointLists : fill_poly(points))

SpecDraw == Init /\ [][NextDraw]_vars

\* ------------------------------------------------------- blit specification

\* Source rectangles <<src_x, src_y, src_width, src_height>>: inside an image
\* of 2 by 2 pixels, below it, to the right of it, and empty.
BlitRects ==
    {<<0, 0, 2, 2>>, <<1, 1, 1, 1>>, <<0, 1, 2, 2>>, <<1, 0, 2, 2>>, <<3, 0, 1, 1>>,
     <<9, 9, 0, 0>>}

NextBlit ==
    \/ Part(\E source \in Sources, width \in BlitWidths, height \in BlitHeights :
               \E r \in BlitRects :
                  blit(0, 0, source, width, height, r[1], r[2], r[3], r[4]))
    \/ Part(\E source \in Sources, width \in BlitWidths, height \in BlitHeights :
               \E r \in BlitRects :
                  mask_blit(0, 0, source, width, height, r[1], r[2], r[3], r[4], 0))

SpecBlit == Init /\ [][NextBlit]_vars

\* ----------------------------------------------------- images specification

NextImages ==
    \/ Part(\E path \in Strings : load_gif(path))
    \/ Part(\E image \in images : Image_data(image))
    \/ Part(\E image \in images : Image_data_mut(image))
    \/ Part(\E image \in images : Image_palette(image))
    \/ Part(\E image \in images : Image_palette_mut(image))

SpecImages == Init /\ [][NextImages]_vars

\* --------------------------------------------------- lifetime specification

\* Assets are loaded and created, used, and their handles dropped.
NextLifetime ==
    \/ Part(\E path \in AssetPaths : load_gif(path))
    \/ Part(\E path \in AssetPaths : load_wav(path))
    \/ Part(\E path \in AssetPaths : load_mid(path))
    \/ Part(create_sound(1, 11025, <<0, 0>>))
    \/ Part(\E data \in MusData : try_create_mus(data))
    \/ Part(\E sound \in sounds : play_sound(0, sound, FALSE, 255))
    \/ Part(\E music \in musics : play_music(music, FALSE, 255))
    \/ Part(\E image \in images : Image_data(image))
    \/ Part(\E image \in images : Image_drop(image))
    \/ Part(\E sound \in sounds : Sound_drop(sound))
    \/ Part(\E music \in musics : Music_drop(music))

SpecLifetime == Init /\ [][NextLifetime]_vars

\* ---------------------------------------------------- threads specification

\* Two threads that share the images the program loaded take views of their
\* pixel data and let go of them, in any order.
NextThreads ==
    \/ Part(\E path \in AssetPaths : load_gif(path))
    \/ \E thread \in Threads, image \in images : thread_data(thread, image)
    \/ \E thread \in Threads, image \in images : thread_data_mut(thread, image)
    \/ \E v \in views : thread_release(v)

SpecThreads == Init /\ [][NextThreads]_vars

\* ------------------------------------------------------ music specification

\* Volumes asked of play_music: silent and full.
Volumes == {0, 255}

NextMusic ==
    \/ Part(\E path \in Strings : load_mid(path))
    \/ Part(\E data \in MusData : try_create_mus(data))
    \/ Part(\E data \in MusData : create_mus(data))
    \/ Part(\E music \in musics, loop_ \in BOOLEAN, volume \in Volumes :
               play_music(music, loop_, volume))
    \/ Part(stop_music)
    \/ Part(is_music_playing)
    \/ Part(track_ends)

SpecMusic == Init /\ [][NextMusic]_vars

\* ----------------------------------------------------- sounds specification

\* Mono and stereo sounds made from a buffer, loaded sounds, and their playback.
NextSounds ==
    \/ Part(\E channels \in {1, 2}, sample_rate \in {11025, 44100} :
               \E samples \in SampleBuffers :
                  create_sound(channels, sample_rate, samples))
    \/ Part(\E path \in AssetPaths : load_wav(path))
    \/ Part(\E sound \in sounds, channel \in {0, 15}, loop_ \in BOOLEAN :
               \E volume \in Volumes : play_sound(channel, sound, loop_, volume))

SpecSounds == Init /\ [][NextSounds]_vars

\* ------------------------------------------------------ input specification

\* Key events the library queues: Escape pressed and released, A pressed.
KeyEvents ==
    {key_entry(KEY_ESCAPE, TRUE), key_entry(KEY_ESCAPE, FALSE), key_entry(KEY_A, TRUE)}

\* Character events the library queues, as C chars: 'a' and 0xE9.
CharEvents == {97, -23}

\* Lengths a held key fills a buffer to: all entries but one, and all of them.
RepeatLens == {INPUT_BUFFER_SIZE - 1, INPUT_BUFFER_SIZE}

NextInput ==
    \/ Part(\E e \in KeyEvents : queue_event("keys", e))
    \/ Part(\E e \in CharEvents : queue_event("chars", e))
    \/ Part(\E n \in RepeatLens : queue_repeat("keys", key_entry(KEY_A, TRUE), n))
    \/ Part(\E n \in RepeatLens : queue_repeat("chars", 97, n))
    \/ Part(read_keys)
    \/ Part(read_chars)

SpecInput == Init /\ [][NextInput]_vars

\* -------------------------------------------------- identifiers specification

\* Ids the application asks from_id for: 0, the id of a default, ids that no
\* font or soundbank has, the largest of them 2^31 - 1.
HandleIds == {0, 2, 99, 2147483647}

NextIds ==
    \/ Part(\E id \in HandleIds : Font_from_id(id))
    \/ Part(\E id \in HandleIds : Soundbank_from_id(id))
    \/ Part(\E filename \in AssetPaths : install_user_font(filename))
    \/ Part(\E filename \in AssetPaths : install_user_soundbank(filename))
    \/ Part(\E font \in fonts \cup DefaultFonts, bold \in BOOLEAN :
               set_text_style(font, bold, FALSE, FALSE))
    \/ Part(\E soundbank \in banks \cup DefaultBanks : set_soundbank(soundbank))

SpecIds == Init /\ [][NextIds]_vars

\* ------------------------------------------------------ mouse specification

NextMouse ==
    \/ Part(mouse_x)
    \/ Part(mouse_y)
    \/ Part(mouse_rel_x)
    \/ Part(mouse_rel_y)

SpecMouse == Init /\ [][NextMouse]_vars

\* -------------------------------------------------- main loop specification

\* The main loop runs while the library queues key events and the window may
\* be closed at any moment.  The loop itself is scheduled fairly: each of its
\* calls returns (wait_vbl returns at the next vertical blank).
NextLoop ==
    \/ main_loop_poll
    \/ main_loop_wait
    \/ main_loop_keys
    \/ main_loop_escape
    \/ close_requested
    \/ Part(\E e \in KeyEvents : queue_event("keys", e))

SpecLoop == Init /\ [][NextLoop]_vars /\ WF_vars(main_loop)

\* ==================================================================== claims

\* The file-loading operations.
LoadOps ==
    {"load_gif", "load_wav", "load_mid", "load_mus", "load_mod", "load_opb",
     "install_user_soundbank", "install_user_font"}

\* The path contains a null byte.
HasNul(path) == 0 \in {path[i] : i \in DOMAIN path}

\* The native entry points a sequence of calls went to.
Fns(made) == [i \in DOMAIN made |-> made[i].fn]

\* C1: a file-loading operation given a path with an embedded null byte returns
\* BadFilePath and invokes no native entry point.
C1_NulPathIsBadFilePath ==
    (op.name \in LoadOps /\ HasNul(op.args[1]))
        => (outcome.tag = "BadFilePath" /\ calls = <<>>)

C1_Witness ==
    /\ op.name = "load_opb"
    /\ op.args[1] = <<65, 0>>
    /\ outcome.tag = "BadFilePath"

\* C2: on a null-free path a file-loading operation makes its native call; a
\* null pointer or the id 0 yields FileNotFound, anything else yields Ok with that
\* very pointer or id, which is then non-null / non-zero: the result is a function
\* of the native outcome.
C2_NativeFailureIsFileNotFound ==
    (op.name \in LoadOps /\ ~HasNul(op.args[1]))
        => /\ Len(calls) = 1
           /\ calls[1].ret = NULL => outcome = [tag |-> "FileNotFound", val |-> 0]
           /\ calls[1].ret # NULL => outcome = [tag |-> "Ok", val |-> calls[1].ret]
           /\ outcome.tag = "Ok" => outcome.val # NULL

C2_Witness ==
    /\ op.name = "load_wav"
    /\ ~HasNul(op.args[1])
    /\ calls[1].ret = NULL
    /\ outcome.tag = "FileNotFound"

\* The usize index denotes a palette index, 0..255.
InPalette(index) == index.hi = 0 /\ index.lo \in PalRange

ScreenArea == as_u16(screenwidth) * as_u16(screenheight)

\* C4: the slice screen_buffer() or swap_buffers() returns has, when the call
\* returns, the length screen_width() * screen_height() of the active mode.
C4_ViewLengthAtReturn ==
    op.name \in {"screen_buffer", "swap_buffers"}
        => /\ outcome.val.len = ScreenArea
           /\ buffer = outcome.val

C4_Witness ==
    /\ op.name = "swap_buffers"
    /\ videomode = "Graphics640x480"
    /\ outcome.val.len = 307200

\* C5 as claimed: every view the caller holds has the length width * height of
\* the mode that is active now.
C5_HeldViewMatchesActiveMode ==
    buffer # NoView => buffer.len = ScreenArea

\* C5, amended: a held view keeps the length width * height of the mode that was
\* active when it was returned; it has the length of the active mode as long as
\* the mode is the one it was made in, and a view of another length predates a
\* mode switch.
C5_HeldViewMatchesModeOfCreation ==
    buffer # NoView
        => /\ buffer.len = ModeWidth(buffer.mode) * ModeHeight(buffer.mode)
           /\ buffer.mode = videomode => buffer.len = ScreenArea

C5_Witness ==
    /\ buffer # NoView
    /\ op.name = "set_video_mode"
    /\ buffer.mode = "Graphics320x200"
    /\ videomode = "Graphics640x480"
    /\ buffer.len = 64000

\* C6: with double buffering enabled in a graphics mode, swap_buffers returns a
\* view of the other frame buffer than the view returned by the preceding
\* screen_buffer or swap_buffers call, so the two views never alias.
C6_SwapReturnsOtherBuffer ==
    [][(/\ op'.name = "swap_buffers"
        /\ doublebuffer
        /\ is_graphics(videomode)
        /\ buffer # NoView)
         => buffer'.buf # buffer.buf]_vars

C6_Witness ==
    /\ op.name = "swap_buffers"
    /\ doublebuffer
    /\ is_graphics(videomode)
    /\ buffer.buf = 0
    /\ drawbuf = 0

\* C7 as claimed: after goto_xy(x, y) placed the cursor, and no other call moved
\* it, where_x() returns x and where_y() returns y.
C7_WhereReturnsCursor ==
    /\ (op.name = "where_x" /\ lastGoto # None) => outcome.val = lastGoto[1]
    /\ (op.name = "where_y" /\ lastGoto # None) => outcome.val = lastGoto[2]

\* The native entry point each wrapper is named after.
NativeOf(name) ==
    CASE name = "set_video_mode" -> "setvideomode"
      [] name = "set_double_buffer" -> "setdoublebuffer"
      [] name = "screen_width" -> "screenwidth"
      [] name = "screen_height" -> "screenheight"
      [] name = "screen_buffer" -> "screenbuffer"
      [] name = "swap_buffers" -> "swapbuffers"
      [] name = "set_pal" -> "setpal"
      [] name = "pal" -> "getpal"
      [] name = "goto_xy" -> "gotoxy"
      [] name = "where_x" -> "wherex"
      [] name = "where_y" -> "wherey"
      [] name \in {"put_str", "put_cstr"} -> "cputs"
      [] name = "out_text_xy" -> "outtextxy"
      [] name = "wrap_text_xy" -> "wraptextxy"
      [] name = "center_text_xy" -> "centertextxy"
      [] name = "load_gif" -> "loadgif"
      [] name = "load_wav" -> "loadwav"
      [] name = "load_mid" -> "loadmid"
      [] name = "load_mus" -> "loadmus"
      [] name = "load_mod" -> "loadmod"
      [] name = "load_opb" -> "loadopb"
      [] name = "install_user_soundbank" -> "installusersoundbank"
      [] name = "install_user_font" -> "installuserfont"
      [] name = "set_text_style" -> "settextstyle"
      [] name = "set_soundbank" -> "setsoundbank"
      [] name = "create_sound" -> "createsound"
      [] name = "play_sound" -> "playsound"
      [] name = "play_music" -> "playmusic"
      [] name \in {"try_create_mus", "create_mus"} -> "createmus"
      [] OTHER -> "none"

SoundPtrs == {a.ptr : a \in {b \in assets : b.type = "sound"}}
MusicPtrs == {a.ptr : a \in {b \in assets : b.type = "music"}}

\* The handle the native call `c` was given, for the calls that take one.
HandleOf(c) == IF c.fn = "playsound" THEN c.args[2] ELSE c.args[1]

\* C9 as claimed: every handle the application can hold, and every handle passed
\* to the native library, came from a successful native load / install / create
\* call or is a built-in default.
C9_HandlesComeFromNativeCalls ==
    /\ sounds \subseteq SoundPtrs
    /\ musics \subseteq MusicPtrs
    /\ fonts \subseteq DefaultFonts \cup userfonts
    /\ banks \subseteq DefaultBanks \cup userbanks
    /\ \A i \in DOMAIN calls :
         /\ calls[i].fn = "playsound" => HandleOf(calls[i]) \in SoundPtrs
         /\ calls[i].fn = "playmusic" => HandleOf(calls[i]) \in MusicPtrs
         /\ calls[i].fn = "settextstyle" => HandleOf(calls[i]) \in DefaultFonts \cup userfonts
         /\ calls[i].fn = "setsoundbank" => HandleOf(calls[i]) \in DefaultBanks \cup userbanks

\* C9, amended: every Music handle held or passed to playmusic wraps a non-null
\* pointer returned by a successful native load or create call; every Font and
\* Soundbank id held or passed is non-zero, and is a default, an installed id or
\* an id the application gave to from_id, which does not check it; a Sound
\* wraps a pointer returned by loadwav or createsound, and create_sound wraps
\* it unchecked, so it can be null.
C9_HandlesNonNullOrUnchecked ==
    /\ musics \subseteq MusicPtrs /\ NULL \notin musics
    /\ sounds \subseteq SoundPtrs \cup {NULL}
    /\ fonts \subseteq (DefaultFonts \cup userfonts \cup AskedIds) \ {0}
    /\ banks \subseteq (DefaultBanks \cup userbanks \cup AskedIds) \ {0}
    /\ \A i \in DOMAIN calls :
         /\ calls[i].fn = "playsound" => HandleOf(calls[i]) \in sounds
         /\ calls[i].fn = "playmusic" => HandleOf(calls[i]) \in musics
         /\ calls[i].fn = "settextstyle" => HandleOf(calls[i]) \in (fonts \cup DefaultFonts)
         /\ calls[i].fn = "setsoundbank" => HandleOf(calls[i]) \in (banks \cup DefaultBanks)

C9_Witness ==
    /\ op.name = "play_music"
    /\ HandleOf(calls[1]) \in MusicPtrs
    /\ NULL \in sounds
    /\ 99 \in fonts

\* The text output operations that convert their string with CString::new.
TextOps == {"put_str", "out_text_xy", "wrap_text_xy", "center_text_xy"}

\* The string the text operation called last was given.
TextArg == IF op.name = "put_str" THEN op.args[1] ELSE op.args[3]

\* C10 as claimed: an operation fails only by returning BadFilePath or
\* FileNotFound; none panics.
C10_OnlyTypedErrors == outcome.tag # "Panic"

\* C10, amended: BadFilePath and FileNotFound are the only error values, and only
\* the file-loading operations return them, which never panic; put_str,
\* out_text_xy, wrap_text_xy and center_text_xy return no error but panic, before
\* any native call, exactly when their string has an embedded null byte.
C10_TypedErrorsAndTextPanics ==
    /\ outcome.tag \in {"BadFilePath", "FileNotFound"} => op.name \in LoadOps
    /\ op.name \in LoadOps => outcome.tag \in {"Ok", "BadFilePath", "FileNotFound"}
    /\ op.name \in TextOps
         => IF HasNul(TextArg)
            THEN outcome.tag = "Panic" /\ calls = <<>>
            ELSE outcome.tag = "Unit" /\ Len(calls) = 1

C10_Witness ==
    /\ op.name = "wrap_text_xy"
    /\ HasNul(TextArg)
    /\ outcome.tag = "Panic"

\* C11: a file-loading operation is single-shot: one call invokes its native entry
\* point at most once, and not at all when the path is rejected as BadFilePath;
\* a failed native call is not repeated; and the call returns exactly one of Ok,
\* BadFilePath and FileNotFound.
C11_LoadIsSingleShot ==
    op.name \in LoadOps
        => /\ Len(calls) <= 1
           /\ \A i \in DOMAIN calls : calls[i].fn = NativeOf(op.name)
           /\ outcome.tag = "BadFilePath" => calls = <<>>
           /\ outcome.tag \in {"FileNotFound", "Ok"} => Len(calls) = 1
           /\ outcome.tag \in {"Ok", "BadFilePath", "FileNotFound"}

C11_Witness ==
    /\ op.name = "load_wav"
    /\ outcome.tag = "FileNotFound"
    /\ Len(calls) = 1
    /\ calls[1].ret = NULL

\* C12: the 14 VideoMode variants have 14 pairwise distinct native constants and
\* the 28 SoundMode variants 28 pairwise distinct ones; set_video_mode and
\* set_sound_mode pass exactly the constant of the variant they are given, no
\* other variant has that constant, and the library, reading the constant back,
\* is in the mode the variant names.
C12_EnumMappingOneToOne ==
    /\ op.name = "set_video_mode"
         => /\ Cardinality({VideoMode_as_c_uint(m) : m \in VideoMode}) = 14
            /\ Fns(calls) = <<"setvideomode">>
            /\ calls[1].args = <<videomode_t_videomode(op.args[1])>>
            /\ \A m \in VideoMode :
                 VideoMode_as_c_uint(m) = calls[1].args[1] => m = op.args[1]
            /\ videomode = op.args[1]
    /\ op.name = "set_sound_mode"
         => /\ Cardinality({SoundMode_as_c_uint(m) : m \in SoundMode}) = 28
            /\ Fns(calls) = <<"setsoundmode">>
            /\ calls[1].args = <<soundmode_t_soundmode(op.args[1])>>
            /\ \A m \in SoundMode :
                 SoundMode_as_c_uint(m) = calls[1].args[1] => m = op.args[1]
            /\ soundmode = op.args[1]

C12_Witness ==
    /\ op.name = "set_sound_mode"
    /\ op.args[1] = "Stereo16Bit5000"
    /\ videomode = "Graphics640x480"
    /\ calls[1].args[1] = 21

\* C13: blit and mask_blit panic, without calling the native blit, when
\* width * height is greater than the length of the source; otherwise they do
\* not panic and call the native function once, with the arguments they were
\* given (the slice as its pointer).
C13_BlitChecksSourceLength ==
    op.name \in {"blit", "mask_blit"}
        => LET source == op.args[3]
               width == op.args[4]
               height == op.args[5]
           IN  IF width * height > source.len
               THEN outcome.tag = "Panic" /\ calls = <<>>
               ELSE /\ outcome.tag = "Unit"
                    /\ Fns(calls) = <<IF op.name = "blit" THEN "blit" ELSE "maskblit">>
                    /\ calls[1].args =
                         [i \in DOMAIN op.args |->
                            IF i = 3 THEN source.ptr ELSE op.args[i]]

C13_Witness ==
    /\ op.name = "mask_blit"
    /\ op.args[3].len = 64000
    /\ op.args[4] = 320
    /\ op.args[5] = 200
    /\ outcome.tag = "Unit"

\* C14: draw_poly and fill_poly panic, without calling the native function,
\* exactly when the list of coordinates is empty or of odd length; for every
\* non-empty list of even length they call the native function once.
C14_PolyChecksPoints ==
    op.name \in {"draw_poly", "fill_poly"}
        => LET points == op.args[1]
           IN  IF points = <<>> \/ Len(points) % 2 = 1
               THEN outcome.tag = "Panic" /\ calls = <<>>
               ELSE /\ outcome.tag = "Unit"
                    /\ Fns(calls) = <<IF op.name = "draw_poly" THEN "drawpoly"
                                                              ELSE "fillpoly">>

C14_Witness ==
    /\ op.name = "fill_poly"
    /\ op.args[1] = <<>>
    /\ outcome.tag = "Panic"

\* The value read_keys / read_chars make of a buffer entry.
Copied(name, c) == IF name = "read_keys" THEN c ELSE c % 256

\* C15: the result of read_keys and read_chars is a copy of the entries of the
\* native buffer that precede its first zero, in the buffer's order: at most 256
\* of them, none of them 0, and no entry of the buffer is read beyond the
\* terminator or beyond index 255.
C15_ReadCopiesUpToTerminator ==
    op.name \in {"read_keys", "read_chars"}
        => LET p == calls[1].ret
               items == outcome.val.items
               n == Len(items)
           IN  /\ n <= 256
               /\ \A j \in 1..n : p[j - 1] # 0 /\ items[j] = Copied(op.name, p[j - 1])
               /\ n < 256 => p[n] = 0
               /\ \A j \in 1..n : items[j] # 0
               /\ outcome.val.derefs = (IF n < 256 THEN n + 1 ELSE 256)

C15_Witness ==
    /\ op.name = "read_keys"
    /\ outcome.val.items = <<>>
    /\ calls[1].ret[1] = KEY_A
    /\ got["chars"] = <<97, 233>>

\* C16: read_keys and read_chars consume the buffer: a call returns exactly the
\* events queued since the previous call, in the order they were queued, so
\* that every event is returned by one call only and a call with no new event
\* since the previous one returns the empty sequence.
C16_ReadsConsumeTheBuffer ==
    [][typed' = typed
         => LET which == IF op'.name = "read_keys" THEN "keys" ELSE "chars"
                fresh == Len(typed[which]) - Len(got[which])
            IN  /\ fresh >= 0
                /\ outcome'.val.items =
                     [j \in 1..fresh |->
                        Copied(op'.name, typed[which][Len(got[which]) + j])]
                /\ got'[which] = got[which] \o outcome'.val.items
                /\ Len(got'[which]) = Len(typed'[which])]_vars

C16_Witness ==
    /\ op.name = "read_chars"
    /\ outcome.val.items = <<>>
    /\ calls[1].ret[1] # 0
    /\ Len(got["chars"]) = 2
    /\ Len(got["keys"]) = INPUT_BUFFER_SIZE

C18_OneTrackPlaying ==
    /\ [](Cardinality(playing) <= 1 /\ (op.name = "stop_music" => playing = {}))
    /\ [][(playing' # playing /\ playing' # {})
              => (op'.name = "play_music" /\ {t.music : t \in playing'} = {op'.args[1]})]_vars
    /\ [][(op'.name = "play_music" /\ callVars' # callVars)
              => {t.music : t \in playing'} = {op'.args[1]}]_vars
    /\ [][(op'.name = "is_music_playing" /\ callVars' # callVars)
              => (outcome'.val = (playing # {}) /\ playing' = playing)]_vars

C18_Witness ==
    /\ op.name = "is_music_playing"
    /\ outcome.val = TRUE
    /\ Cardinality(musics) = 2
    /\ playing = {[music |-> 2, loop |-> TRUE]}

\* C19: try_create_mus returns None exactly when createmus returns null, and
\* otherwise Some of a handle with the pointer createmus returned; create_mus
\* panics exactly when createmus returns null, the case in which try_create_mus
\* returns None, and otherwise returns the handle with that pointer.
C19_CreateMusChecksNull ==
    /\ op.name = "try_create_mus"
         => /\ Fns(calls) = <<"createmus">>
            /\ outcome.tag = "None" <=> calls[1].ret = NULL
            /\ calls[1].ret # NULL
                 => outcome = [tag |-> "Some", val |-> calls[1].ret]
    /\ op.name = "create_mus"
         => /\ Fns(calls) = <<"createmus">>
            /\ outcome.tag = "Panic" <=> calls[1].ret = NULL
            /\ calls[1].ret # NULL
                 => outcome = [tag |-> "Value", val |-> calls[1].ret]
    /\ op.name \in {"try_create_mus", "create_mus"}
         => (outcome.tag \in {"Some", "Value"} => outcome.val \in musics)

C19_Witness ==
    /\ op.name = "create_mus"
    /\ outcome.tag = "Panic"
    /\ calls[1].ret = NULL
    /\ musics # {}

\* C20: for every loaded image, palette() and palette_mut() are the same range
\* of the palette array, the first palette_count * 3 bytes, never more than 768;
\* data() and data_mut() have the length width * height.
C20_PaletteAndDataLengths ==
    /\ op.name \in {"Image::palette", "Image::palette_mut"}
         => /\ outcome.tag = "Value"
            /\ outcome.val = [start |-> 0, len |-> op.args[1].palette_count * 3]
            /\ outcome.val.len <= 768
    /\ op.name \in {"Image::data", "Image::data_mut"}
         => /\ outcome.tag = "Value"
            /\ outcome.val.len = op.args[1].width * op.args[1].height

\* C21: once the shutdown flag is set it stays set; a shutting_down() call made
\* while it is set returns true, so the loop `while !shutting_down() { ... }`
\* leaves at its first poll after the flag is set; and, its calls returning,
\* the loop does leave once the flag is set.
C21_ShutdownFlagEndsTheLoop ==
    /\ [][shutdown => shutdown']_vars
    /\ [][(shutdown /\ pc = "poll" /\ pc' # "poll")
            => (op'.name = "shutting_down" /\ outcome'.val = TRUE /\ pc' = "done")]_vars
    /\ shutdown ~> (pc = "done")

\* The window was closed while the loop was running, after it had read a key,
\* and the poll that followed read the flag and ended the loop.
C21_Witness ==
    /\ shutdown
    /\ pc = "done"
    /\ op.name = "shutting_down"
    /\ outcome.val = TRUE
    /\ got["keys"] # <<>>

\* The variants of VideoMode whose name starts with Text, and those whose name
\* starts with Graphics, as the enum declares them.
TextVariants ==
    {"Text40x25_8x8", "Text40x25_9x16", "Text80x25_8x8", "Text80x25_8x16",
     "Text80x25_9x16", "Text80x43_8x8", "Text80x50_8x8"}

GraphicsVariants ==
    {"Graphics320x200", "Graphics320x240", "Graphics320x400", "Graphics640x200",
     "Graphics640x350", "Graphics640x400", "Graphics640x480"}

\* C22: every one of the 14 VideoMode variants is exactly one of text or
\* graphics: kind() is Text for the 7 Text* variants and Graphics for the 7
\* Graphics* variants, is_text() is true exactly for the former, is_graphics()
\* exactly for the latter, and so is_text() = not is_graphics().
C22_ModeIsTextOrGraphics ==
    /\ Cardinality(TextVariants) = 7
    /\ Cardinality(GraphicsVariants) = 7
    /\ TextVariants \cap GraphicsVariants = {}
    /\ VideoMode = TextVariants \cup GraphicsVariants
    /\ \A m \in VideoMode : is_text(m) = ~is_graphics(m)
    /\ op.name = "VideoMode::kind"
         => outcome.val = IF op.args[1] \in TextVariants THEN "Text" ELSE "Graphics"
    /\ op.name = "VideoMode::is_text" => outcome.val = (op.args[1] \in TextVariants)
    /\ op.name = "VideoMode::is_graphics"
         => outcome.val = (op.args[1] \in GraphicsVariants)

\* is_graphics() was asked of a graphics mode, after the library was put in it.
C22_Witness ==
    /\ op.name = "VideoMode::is_graphics"
    /\ op.args[1] = "Graphics640x480"
    /\ outcome.val = TRUE
    /\ videomode = "Graphics640x480"

\* C23: whenever blit or mask_blit calls the native function, every index of
\* the source the native function reads is less than the length of the source,
\* whatever the source rectangle.
C23_BlitReadsInsideSource ==
    (op.name \in {"blit", "mask_blit"} /\ calls # <<>>)
        => \A k \in blit_reads(calls[1].args[4], calls[1].args[6], calls[1].args[7],
                                calls[1].args[8], calls[1].args[9]) :
              k < op.args[3].len

\* C24: whenever draw_poly or fill_poly calls the native function, the memory
\* the native function reads (count points of two C ints each, count being the
\* second argument) lies inside the slice of points.len() elements of 2 bytes,
\* and each coordinate it reads equals the corresponding element of the slice.
C24_PolyReadsInsidePoints ==
    (op.name \in {"draw_poly", "fill_poly"} /\ calls # <<>>)
        => LET points == op.args[1]
               count == calls[1].args[2]
           IN  /\ poly_bytes_read(count) <= Len(points) * SIZEOF_U16
               /\ \A k \in 1..(2 * count) : poly_int_read(points, k) = points[k]

\* C25: for every create_sound call, the samples the native createsound reads
\* (the count passed, times the channels) are no more than the slice holds, and
\* the Sound returned wraps a non-null pointer, so that play_sound never passes
\* a null pointer to the native mixer.
C25_CreateSoundReadsInsideSamples ==
    /\ op.name = "create_sound"
         => /\ createsound_reads(calls[1].args[1], calls[1].args[3]) <= Len(op.args[3])
            /\ outcome.val # NULL
    /\ op.name = "play_sound" => calls[1].args[2] # NULL

\* C26: mouse_x, mouse_y, mouse_rel_x and mouse_rel_y return a value equal, as
\* a number, to the value the native function returned, negative relative
\* movements included.
C26_MouseValuesAreLossless ==
    op.name \in {"mouse_x", "mouse_y", "mouse_rel_x", "mouse_rel_y"}
        => outcome.val = calls[1].ret

\* C27: a palette entry changes only in a set_pal call whose index is in 0..255
\* and is the index of that entry: set_pal with any other usize index, also one
\* that does not fit in a C int, leaves all 256 entries as they were.
C27_SetPalWritesOnlyItsEntry ==
    [][\A i \in PalRange :
          palette'[i] # palette[i]
              => /\ op'.name = "set_pal"
                 /\ InPalette(op'.args[1])
                 /\ op'.args[1].lo = i]_vars

\* C28: every Font and Soundbank value has a non-zero id; Font::from_id and
\* Soundbank::from_id return None exactly for the id 0, and otherwise the handle
\* of that id; the default constants are non-zero and pairwise distinct within
\* their type; and the id set_text_style and set_soundbank pass to the native
\* function is, as a 32-bit value, the id of the handle they were given.
C28_HandleIdsAreNonZero ==
    /\ 0 \notin fonts \cup banks
    /\ 0 \notin DefaultFonts \cup DefaultBanks
    /\ Cardinality(DefaultFonts) = 3
    /\ Cardinality(DefaultBanks) = 2
    /\ op.name \in {"Font::from_id", "Soundbank::from_id"}
         => /\ outcome.tag = "None" <=> op.args[1] = 0
            /\ outcome.tag = "Some" <=> op.args[1] # 0
            /\ outcome.tag = "Some" => outcome.val = op.args[1]
    /\ op.name \in {"set_text_style", "set_soundbank"}
         => /\ Len(calls) = 1
            /\ c_int_as_u32(calls[1].args[1]) = op.args[1]
            /\ op.args[1] # 0

\* A font made by from_id from the largest id was handed to set_text_style,
\* while the application also held an installed soundbank.
C28_Witness ==
    /\ op.name = "set_text_style"
    /\ op.args[1] = 2147483647
    /\ calls[1].args[1] = 2147483647
    /\ userbanks # {}
    /\ banks # {}

\* C29: no interleaving of threads sharing an Image reaches a state where a
\* mutable view of its pixel data is live together with another view of it,
\* mutable or shared: a view obtained with data_mut is the only view.
C29_MutableViewIsExclusive ==
    \A v \in views, w \in views :
        (v # w /\ v.image = w.image) => (v.access = "shared" /\ w.access = "shared")

\* The native allocations of images that are live.
ImagePtrs == {a.ptr : a \in {b \in assets : b.type = "image"}}

\* C30: no operation releases a native asset: the set of live native assets
\* never shrinks, every Image, Sound and Music handle held that came from a
\* successful load or create call refers to a live allocation, and so does
\* every handle given to a native function.
C30_AssetsAreNeverReleased ==
    /\ [][assets \subseteq assets']_vars
    /\ [](/\ {i.data : i \in images} \subseteq ImagePtrs
          /\ sounds \ {NULL} \subseteq SoundPtrs
          /\ musics \subseteq MusicPtrs
          /\ \A i \in DOMAIN calls :
                /\ calls[i].fn = "playsound"
                     => HandleOf(calls[i]) \in SoundPtrs \cup {NULL}
                /\ calls[i].fn = "playmusic" => HandleOf(calls[i]) \in MusicPtrs)

\* A sound is played after the handle of an image was dropped: both
\* allocations are live, one of them without a handle.
C30_Witness ==
    /\ op.name = "play_sound"
    /\ calls[1].args[2] \in SoundPtrs
    /\ ImagePtrs # {}
    /\ images = {}
    /\ Cardinality(assets) = 2

====
